---- MODULE Spec2Model ----
(***************************************************************************)
(* Model of checkin-bot: the check-in service with its scheduler tick, and *)
(* the account_updates repository with the cookie-refresh operation of the *)
(* account manager.                                                        *)
(*                                                                         *)
(* Four specifications share the module:                                   *)
(*   Spec        check-in runs (manual and scheduled) over checkin_logs,   *)
(*               ticks overlapping                                         *)
(*   SpecSerial  the same with one tick at a time                          *)
(*   SpecRepo    sequences of AccountUpdateRepository calls                *)
(*   SpecUpdate  concurrent AccountManager.update_account_cookie calls     *)
(* The store is PostgreSQL in autocommit mode (no transaction is opened    *)
(* anywhere in the repositories): every statement is its own transaction   *)
(* and every await is a point where another coroutine may run.             *)
(***************************************************************************)
EXTENDS Integers, Sequences, FiniteSets, TLC

----------------------------------------------------------------------------
(* Program constants *)

LookbackDays == 4
SlotMinutes == 12

(* Bounds of the model *)

MaxLogs == 2
MaxRuns == 2

NULL == -1

Accounts == {1, 2}
Runs == 1..MaxRuns

(* the instants at which the clock is observed, as <<day, hour, minute>>:   *)
(* two minutes of one slot, the next slot, the same slot of the next hour, *)
(* and the instant exactly LookbackDays after the first one                *)
Instants == {<<0, 4, 6>>, <<0, 4, 7>>, <<0, 4, 12>>, <<0, 5, 6>>, <<LookbackDays, 4, 6>>}
(* both accounts are to be checked in at hour 4; account 2 is not active *)
CheckinHour == <<4, 4>>
AccountStatus == <<"active", "inactive">>
Balances == {105}
Deltas == {5}

ValidTimes == {[day |-> i[1], hour |-> i[2], minute |-> i[3]] : i \in Instants}

(* minutes since day 0, 00:00: the order of naive local timestamps *)
Abs(t) == (t.day * 24 + t.hour) * 60 + t.minute

(* slot = minute // 12 + 1 *)
Slot(minute) == (minute \div SlotMinutes) + 1

HourSlot(t) == <<t.hour, Slot(t.minute)>>

----------------------------------------------------------------------------
VARIABLES
    clock,          \* core.timezone.now(): naive local time
    accounts,       \* accounts table: credits, checkin_count, checkin_hour, status
    logs,           \* checkin_logs table, in insertion order
    today_cache,    \* the scheduler's CheckinService._today_cache
    cache_date,     \* the scheduler's CheckinService._cache_date
    runs,           \* the check-in coroutines (manual calls and tick tasks)
    updates,        \* account_updates table
    next_id,        \* account_updates.id sequence
    wall,           \* now() as read by the update repository
    last,           \* what the latest direct repository call returned
    ops,            \* the update_account_cookie invocations
    users,          \* users table
    account_rows,   \* accounts table as the account manager sees it
    account_seq,    \* accounts.id sequence
    adds,           \* the add_account invocations
    ret,            \* what the latest account manager call returned
    conv,           \* a user's add-account conversation, session and user_data
    tick,           \* one scheduler tick and the tasks it gathers
    batch,          \* the handler of the "check in all accounts" button
    crypt,          \* a password, what encrypt_password made of it, and back
    push,           \* the job queue, its registered jobs, and the push messages sent
    solver,         \* one call of CloudflyerSolver.solve: its polls and what it returned
    auth,           \* one call of SiteAuthService.login: its requests and what it returned
    adapter,        \* one call of a site adapter's checkin: the responses and the result
    boot,           \* the process from its start: settings, post_init, the operations served
    sessions,       \* sessions table, its id sequence, and what the last get returned
    hourly,         \* the ticks of one check-in hour: which minute ran the service
    zone,           \* the time zone of the process's system clock (date.today())
    setters,        \* the calls of update_checkin_time that are under way
    pool,           \* the connection pool and BaseRepository._contexts
    cookie_from     \* per account, the refresh row of the invocation that stored its cookie

ckvars == <<clock, accounts, logs, today_cache, cache_date, runs>>

upvars == <<updates, next_id, wall, last, ops>>

mgvars == <<users, account_rows, account_seq, adds, ret>>

xvars == <<conv, tick, batch, crypt, push, solver, auth, adapter, boot, sessions, hourly, zone, setters, pool, cookie_from>>

vars == <<ckvars, upvars, mgvars, xvars>>

----------------------------------------------------------------------------
(* CheckinLogRepository *)

SuccessRows(a) == {i \in 1..Len(logs) : logs[i].account = a /\ logs[i].status = "success"}

(* get_today_success_count with a defect: the failed rows are counted *)
get_today_failed_count(a) ==
    Cardinality({i \in 1..Len(logs) : /\ logs[i].account = a /\ logs[i].status = "failed"
                                      /\ logs[i].at.day = clock.day})

\* SELECT COUNT ... WHERE status = 'success' AND DATE(executed_at) = CURRENT_DATE
get_today_success_count(a) ==
    Cardinality({i \in SuccessRows(a) : logs[i].at.day = clock.day})

(* SELECT credits_delta ... ORDER BY executed_at ASC LIMIT 1; "delta or 0" *)
get_today_success_delta(a) ==
    LET today == {i \in SuccessRows(a) : logs[i].at.day = clock.day}
    IN  IF today = {} THEN {0}
        ELSE {logs[i].credits_delta : i \in {j \in today : \A k \in today : Abs(logs[j].at) <= Abs(logs[k].at)}}

(* get_recent_slots with a defect: every success row, however old *)
get_recent_slots_of_all_time(a, days) == {logs[i].at : i \in SuccessRows(a)}

(* SELECT executed_at ... status = 'success' AND executed_at > NOW() - INTERVAL '1 day' * $2 *)
get_recent_slots(a, days) ==
    {logs[i].at : i \in {j \in SuccessRows(a) :
        Abs(logs[j].at) > Abs(clock) - days * 24 * 60}}

(* INSERT INTO checkin_logs ... executed_at = now() *)
LogRow(a, status, delta, by) ==
    [account |-> a, status |-> status, credits_delta |-> delta, at |-> clock, by |-> by]

----------------------------------------------------------------------------
(* AccountRepository *)

(* get_by_checkin_time with a defect: the status is not part of the filter *)
get_by_checkin_time_any_status(hour) ==
    {a \in Accounts : accounts[a].checkin_hour = hour}

(* SELECT * FROM accounts WHERE checkin_hour = $1 AND status = 'active' *)
get_by_checkin_time(hour) ==
    {a \in Accounts : accounts[a].checkin_hour = hour /\ accounts[a].status = "active"}

(* UPDATE accounts SET credits = $1, checkin_count = checkin_count + $2 *)
update_credits(a, credits, checkin_count_increment) ==
    [accounts EXCEPT ![a].credits = credits,
                     ![a].checkin_count = @ + checkin_count_increment]

----------------------------------------------------------------------------
(* CheckinService *)

(* should_checkin with a defect: the slot numbers are compared without the hour *)
should_checkin_slot_only(a, current_time) ==
    \A log_time \in get_recent_slots(a, LookbackDays) :
        Slot(log_time.minute) # Slot(current_time.minute)

(* the anti-duplicate test of a tick task, current_time being the tick's time *)
should_checkin(a, current_time) ==
    \A log_time \in get_recent_slots(a, LookbackDays) :
        HourSlot(log_time) # HourSlot(current_time)

(* what a site adapter's checkin() can return: success with or without a   *)
(* post-check-in balance, or a failure (adapters catch their own errors)   *)
AdapterResults ==
    [success : {TRUE}, credits_after : Balances \cup {NULL}, credits_delta : Deltas]
    \cup {[success |-> FALSE, credits_after |-> NULL, credits_delta |-> 0]}

NoResult == [success |-> FALSE, credits_after |-> NULL, credits_delta |-> 0]

IdleRun ==
    [pc |-> "idle", account |-> 0, manual |-> FALSE, t |-> [day |-> 0, hour |-> 0, minute |-> 0],
     cnt |-> FALSE, result |-> NoResult, has_today_log |-> FALSE,
     after_success |-> FALSE, call_day |-> NULL, nth |-> 0]

Active(r) == runs[r].pc # "idle"

(* a success row dated today exists for the account *)
SuccessToday(a) ==
    \E i \in 1..Len(logs) :
        logs[i].account = a /\ logs[i].status = "success" /\ logs[i].at.day = clock.day

(* a manual call of today has written a row for the account *)
EarlierManualCall(a) ==
    \E i \in 1..Len(logs) : logs[i].account = a /\ logs[i].by = clock.day

(* every started run may append one row: keep room for it *)
RoomForRun(n) ==
    Len(logs) + Cardinality({r \in Runs : Active(r)}) + n <= MaxLogs

(* Tasks have no identity beyond what they hold: runs keeps one arrangement *)
(* of each collection of tasks.                                            *)
(* a fixed order on tasks: of two different ones, the first of the pair *)
Before(x, y) == x # y /\ x = (CHOOSE z \in {x, y} : TRUE)

Arranged(rs) ==
    LET place == [r \in Runs |->
                    Cardinality({q \in Runs : Before(rs[q], rs[r])})
                    + Cardinality({q \in 1..r : rs[q] = rs[r]})]
    IN  [k \in Runs |-> rs[CHOOSE r \in Runs : place[r] = k]]

Return(r) == Arranged([runs EXCEPT ![r] = IdleRun])

(* the branch taken once the cache answers "already succeeded today" *)
Branch(already) == IF already THEN "short" ELSE "adapter"

----------------------------------------------------------------------------
(* Spec: the check-in service *)

InitCheckin ==
    /\ clock = [day |-> 0, hour |-> 4, minute |-> 6]
    /\ accounts = [a \in Accounts |-> [credits |-> 100, checkin_count |-> 0,
                                       checkin_hour |-> CheckinHour[a], status |-> AccountStatus[a]]]
    /\ logs = <<>>
    /\ today_cache = [a \in Accounts |-> "absent"]
    /\ cache_date = NULL
    /\ runs = [r \in Runs |-> IdleRun]

(* time passes *)
AdvanceClock(t) ==
    /\ Abs(t) > Abs(clock)
    /\ clock' = t
    /\ UNCHANGED <<accounts, logs, today_cache, cache_date, runs, upvars, mgvars, xvars>>

(* a handler builds a CheckinService and calls manual_checkin(account_id): *)
(* the account is read and _do_checkin(account, is_manual=True) is entered. *)
(* The Application is built without concurrent_updates: it runs one        *)
(* handler at a time, next to the jobs of the job queue.                   *)
manual_checkin(r, a) ==
    /\ ~Active(r)
    /\ \A q \in Runs : q < r => Active(q)
    /\ \A q \in Runs : ~(Active(q) /\ runs[q].manual)
    /\ RoomForRun(1)
    /\ runs' = Arranged([runs EXCEPT ![r] =
          [IdleRun EXCEPT !.pc = "begin", !.account = a, !.manual = TRUE,
                          !.after_success = SuccessToday(a),
                          !.call_day = clock.day,
                          !.nth = IF EarlierManualCall(a) THEN 2 ELSE 1]])
    /\ UNCHANGED <<clock, accounts, logs, today_cache, cache_date, upvars, mgvars, xvars>>

(* the per-minute job: current_time = now(), the accounts due this hour,   *)
(* and one concurrent task (checkin_with_catch) per account.  With overlap *)
(* a tick may start while tasks of the tick before are still running.      *)
scheduled_checkin(overlap) ==
    LET current_time == clock
        due == get_by_checkin_time(current_time.hour)
        idle == {r \in Runs : ~Active(r)}
    IN  /\ due # {}
        /\ overlap \/ \A q \in Runs : Active(q) => runs[q].manual
        /\ RoomForRun(Cardinality(due))
        /\ \E f \in [due -> idle] :
              /\ \A a, b \in due : a # b => f[a] # f[b]
              /\ runs' = Arranged([r \in Runs |->
                    IF \E a \in due : f[a] = r
                    THEN [IdleRun EXCEPT !.pc = "should",
                                         !.account = CHOOSE a \in due : f[a] = r,
                                         !.t = current_time]
                    ELSE runs[r]])
        /\ UNCHANGED <<clock, accounts, logs, today_cache, cache_date, upvars, mgvars, xvars>>

(* checkin_with_catch: _get_available_slots (read only, logged) and then   *)
(* _should_checkin decide whether _do_checkin is entered                   *)
checkin_with_catch(r) ==
    /\ runs[r].pc = "should"
    /\ runs' = Arranged(
                 IF should_checkin(runs[r].account, runs[r].t)
                 THEN [runs EXCEPT ![r].pc = "begin", ![r].t = IdleRun.t,
                                   ![r].after_success = SuccessToday(runs[r].account),
                                   ![r].call_day = clock.day]
                 ELSE [runs EXCEPT ![r].pc = "skipped", ![r].t = IdleRun.t])
    /\ UNCHANGED <<clock, accounts, logs, today_cache, cache_date, upvars, mgvars, xvars>>

(* a filtered task returns None, which gather() drops from the results *)
checkin_skipped(r) ==
    /\ runs[r].pc = "skipped"
    /\ runs' = Return(r)
    /\ UNCHANGED <<clock, accounts, logs, today_cache, cache_date, upvars, mgvars, xvars>>

(* date.today(): the date of the system's local time, which leads the     *)
(* time of the configured zone by zone.ahead hours                         *)
date_today == (Abs(clock) + zone.ahead * 60) \div (24 * 60)

(* _do_checkin up to its first await: flush the cache on a new date, and   *)
(* query today's success count when the account has no cache entry.  A     *)
(* manual call runs on the service its handler has just built: no entry.   *)
do_checkin_begin(r) ==
    LET a == runs[r].account
        today == date_today
        cache == IF cache_date # today THEN [b \in Accounts |-> "absent"] ELSE today_cache
    IN  /\ runs[r].pc = "begin"
        /\ IF runs[r].manual
           THEN /\ runs' = Arranged([runs EXCEPT ![r].pc = "setcache",
                                        ![r].cnt = (get_today_success_count(a) > 0)])
                /\ UNCHANGED <<today_cache, cache_date>>
           ELSE /\ today_cache' = cache
                /\ cache_date' = today
                /\ runs' = Arranged(
                             IF cache[a] = "absent"
                             THEN [runs EXCEPT ![r].pc = "setcache",
                                               ![r].cnt = (get_today_success_count(a) > 0)]
                             ELSE [runs EXCEPT ![r].pc = Branch(cache[a] = "yes")])
        /\ UNCHANGED <<clock, accounts, logs, upvars, mgvars, xvars>>

(* the count arrives: it is stored in the cache and read back *)
do_checkin_cache(r) ==
    /\ runs[r].pc = "setcache"
    /\ today_cache' = IF runs[r].manual THEN today_cache
                      ELSE [today_cache EXCEPT ![runs[r].account] = IF runs[r].cnt THEN "yes" ELSE "no"]
    /\ runs' = Arranged([runs EXCEPT ![r].pc = Branch(runs[r].cnt), ![r].cnt = FALSE])
    /\ UNCHANGED <<clock, accounts, logs, cache_date, upvars, mgvars, xvars>>

(* cache hit: the synthetic "already checked in today" success *)
do_checkin_short(r) ==
    /\ runs[r].pc = "short"
    /\ runs' = Return(r)
    /\ UNCHANGED <<clock, accounts, logs, today_cache, cache_date, upvars, mgvars, xvars>>

(* adapter.checkin(account) returns, and today's success count is re-read *)
do_checkin_adapter(r, res) ==
    /\ runs[r].pc = "adapter"
    /\ runs' = Arranged([runs EXCEPT ![r].pc = "log", ![r].result = res,
                            ![r].has_today_log = (get_today_success_count(runs[r].account) > 0)])
    /\ UNCHANGED <<clock, accounts, logs, today_cache, cache_date, upvars, mgvars, xvars>>

(* the log row: a success only when no success was counted, every failure *)
do_checkin_log(r) ==
    LET a == runs[r].account
        result == runs[r].result
        by == IF runs[r].manual THEN runs[r].call_day ELSE NULL
    IN  /\ runs[r].pc = "log"
        /\ logs' = IF result.success
                   THEN IF ~runs[r].has_today_log
                        THEN Append(logs, LogRow(a, "success", result.credits_delta, by))
                        ELSE logs
                   ELSE Append(logs, LogRow(a, "failed", result.credits_delta, by))
        /\ runs' = Arranged([runs EXCEPT ![r].pc = "credits"])
        /\ UNCHANGED <<clock, accounts, today_cache, cache_date, upvars, mgvars, xvars>>

(* credits_write with a defect: the balance is written for a failure too *)
credits_write_any_result(r) ==
    update_credits(runs[r].account, runs[r].result.credits_after, 0)

(* the accounts table after the run's update of credits and counter *)
credits_write(r) ==
    LET a == runs[r].account
        result == runs[r].result
        should_increment == result.success /\ ~runs[r].has_today_log
    IN  IF result.success /\ result.credits_after # NULL
        THEN update_credits(a, result.credits_after, IF should_increment THEN 1 ELSE 0)
        ELSE accounts

(* credits and counter, then the result is returned *)
do_checkin_credits(r) ==
    /\ runs[r].pc = "credits"
    /\ accounts' = credits_write(r)
    /\ runs' = Return(r)
    /\ UNCHANGED <<clock, logs, today_cache, cache_date, upvars, mgvars, xvars>>

NextCheckin(overlap) ==
    \/ \E t \in ValidTimes : AdvanceClock(t)
    \/ \E r \in Runs, a \in Accounts : manual_checkin(r, a)
    \/ scheduled_checkin(overlap)
    \/ \E r \in Runs : checkin_with_catch(r)
    \/ \E r \in Runs : checkin_skipped(r)
    \/ \E r \in Runs : do_checkin_begin(r)
    \/ \E r \in Runs : do_checkin_cache(r)
    \/ \E r \in Runs : do_checkin_short(r)
    \/ \E r \in Runs, res \in AdapterResults : do_checkin_adapter(r, res)
    \/ \E r \in Runs : do_checkin_log(r)
    \/ \E r \in Runs : do_checkin_credits(r)

----------------------------------------------------------------------------
(* AccountUpdateRepository over the account_updates table *)

ActiveStatuses == {"pending", "processing"}
UpdateStatuses == {"pending", "processing", "completed", "failed"}

ActiveRows(a) == {u \in updates : u.account_id = a /\ u.status \in ActiveStatuses}

(* CREATE UNIQUE INDEX idx_account_updates_active_constraint               *)
(*   ON account_updates (account_id, status)                               *)
(*   WHERE status IN ('pending', 'processing'):                            *)
(* a row (a, status) cannot be stored next to another row (a, status)      *)
IndexConflict(a, status, id) ==
    /\ status \in ActiveStatuses
    /\ \E u \in updates : u.id # id /\ u.account_id = a /\ u.status = status

(* WITH existing AS (SELECT ... status IN ('pending', 'processing')        *)
(*                   ORDER BY created_at DESC LIMIT 1 FOR UPDATE)          *)
existing(a) ==
    {u \in ActiveRows(a) : \A v \in ActiveRows(a) : v.created_at <= u.created_at}

(* INSERT ... VALUES ($1, 'pending', NULL, NULL, NULL, $2) RETURNING *     *)
NewRow(a, current_time) ==
    [id |-> next_id, account_id |-> a, status |-> "pending", started_at |-> NULL,
     completed_at |-> NULL, created_at |-> current_time]

(* is_new = status == PENDING and created_at == current_time *)
is_new(update_model, current_time) ==
    update_model.status = "pending" /\ update_model.created_at = current_time

(* UPDATE account_updates SET status = $1 ... WHERE id = $n: the rows after *)
(* the statement; a violation of the unique index leaves them as they were *)
(* current_time = now(); started_at with PROCESSING, completed_at with      *)
(* COMPLETED or FAILED                                                     *)
update_status(update_id, status) ==
    LET current_time == wall
    IN  {IF u.id = update_id /\ ~IndexConflict(u.account_id, status, u.id)
         THEN [u EXCEPT !.status = status,
                        !.started_at = IF status = "processing" THEN current_time ELSE @,
                        !.completed_at = IF status \in {"completed", "failed"}
                                         THEN current_time ELSE @]
         ELSE u : u \in updates}

update_status_raises(update_id, status) ==
    \E u \in updates : u.id = update_id /\ IndexConflict(u.account_id, status, u.id)

(* DELETE FROM account_updates WHERE account_id = $1 AND status IN (...)   *)
delete_active(a) == updates \ ActiveRows(a)

NoLast == [call |-> "none", account_id |-> 0, created |-> FALSE, inserted |-> FALSE,
           id |-> 0, raised |-> FALSE]

MaxRows == 2
MaxWall == 2
MaxOps == 2

Ops == 1..MaxOps

IdleOp == [pc |-> "idle", account_id |-> 0, force |-> FALSE, current_time |-> 0,
           update_id |-> 0, new_cookie |-> FALSE, outcome |-> "none",
           quiet |-> FALSE, born |-> 0, inserted |-> FALSE, proceeded |-> FALSE]

InitUpdates ==
    /\ updates = {}
    /\ next_id = 1
    /\ wall = 0
    /\ last = NoLast
    /\ ops = [o \in Ops |-> IdleOp]

----------------------------------------------------------------------------
(* SpecRepo: the repository called directly, one call after another *)

(* the clock of now() moves on *)
WallTick ==
    /\ wall < MaxWall
    /\ wall' = wall + 1
    /\ UNCHANGED <<updates, next_id, last, ops, ckvars, mgvars, xvars>>

try_create_or_get_active(a) ==
    LET current_time == wall
    IN  /\ next_id <= MaxRows
        /\ IF existing(a) = {}
           THEN /\ updates' = updates \cup {NewRow(a, current_time)}
                /\ next_id' = next_id + 1
                /\ last' = [NoLast EXCEPT !.call = "try_create_or_get_active", !.account_id = a,
                                          !.created = is_new(NewRow(a, current_time), current_time),
                                          !.inserted = TRUE, !.id = next_id]
           ELSE /\ \E u \in existing(a) :
                      last' = [NoLast EXCEPT !.call = "try_create_or_get_active", !.account_id = a,
                                             !.created = is_new(u, current_time),
                                             !.inserted = FALSE, !.id = u.id]
                /\ UNCHANGED <<updates, next_id>>
        /\ UNCHANGED <<wall, ops, ckvars, mgvars, xvars>>

create(a) ==
    LET current_time == wall
    IN  /\ next_id <= MaxRows
        /\ IF IndexConflict(a, "pending", 0)
           THEN /\ last' = [NoLast EXCEPT !.call = "create", !.account_id = a, !.raised = TRUE]
                /\ UNCHANGED <<updates, next_id>>
           ELSE /\ updates' = updates \cup {NewRow(a, current_time)}
                /\ next_id' = next_id + 1
                /\ last' = [NoLast EXCEPT !.call = "create", !.account_id = a,
                                          !.inserted = TRUE, !.id = next_id]
        /\ UNCHANGED <<wall, ops, ckvars, mgvars, xvars>>

(* the DELETE is committed, then the INSERT is given the function now      *)
(* instead of current_time and asyncpg rejects the argument (DataError)    *)
force_create(a) ==
    /\ updates' = delete_active(a)
    /\ last' = [NoLast EXCEPT !.call = "force_create", !.account_id = a, !.raised = TRUE]
    /\ UNCHANGED <<next_id, wall, ops, ckvars, mgvars, xvars>>

update_status_call(update_id, status) ==
    /\ \E u \in updates : u.id = update_id
    /\ updates' = update_status(update_id, status)
    /\ last' = [NoLast EXCEPT !.call = "update_status", !.id = update_id,
                              !.raised = update_status_raises(update_id, status)]
    /\ UNCHANGED <<next_id, wall, ops, ckvars, mgvars, xvars>>

NextRepo ==
    \/ WallTick
    \/ \E a \in Accounts : try_create_or_get_active(a)
    \/ \E a \in Accounts : create(a)
    \/ \E a \in Accounts : force_create(a)
    \/ \E u \in updates, status \in UpdateStatuses : update_status_call(u.id, status)

----------------------------------------------------------------------------
(* SpecUpdate: AccountManager.update_account_cookie, called concurrently.  *)
(* Each statement runs on its own pooled connection: the statement of      *)
(* try_create_or_get_active reads its snapshot, and its INSERT meets the   *)
(* unique index afterwards, where another statement may have committed.    *)

InFlightPcs == {"processing", "login", "final"}

(* the cookies of the accounts are the ones their add_account stored *)
InitRefreshed == cookie_from = [a \in Accounts |-> 0]

Finish(o, outcome) == [ops EXCEPT ![o].pc = "done", ![o].outcome = outcome]

(* the call passes the user and ownership checks and reaches step 1 *)
update_account_cookie(o, a, force) ==
    /\ ops[o].pc = "idle"
    /\ \A q \in Ops : q < o => ops[q].pc # "idle"
    /\ ops' = [ops EXCEPT ![o] = [IdleOp EXCEPT !.pc = IF force THEN "force" ELSE "try",
                                                !.account_id = a, !.force = force,
                                                !.quiet = (ActiveRows(a) = {}),
                                                !.born = next_id]]
    /\ UNCHANGED <<updates, next_id, wall, last, ckvars, mgvars, xvars>>

(* try_create_or_get_active: current_time = now() and the snapshot of      *)
(* "existing"; with an active row the statement returns it                 *)
try_existing(o) ==
    LET a == ops[o].account_id
        current_time == wall
    IN  /\ ops[o].pc = "try"
        /\ IF existing(a) = {}
           THEN ops' = [ops EXCEPT ![o].pc = "insert", ![o].current_time = current_time]
           ELSE \E u \in existing(a) :
                   ops' = IF is_new(u, current_time)
                          THEN [ops EXCEPT ![o].pc = "processing", ![o].update_id = u.id,
                                           ![o].current_time = current_time,
                                           ![o].proceeded = TRUE]
                          ELSE Finish(o, "in_progress")
        /\ UNCHANGED <<updates, next_id, wall, last, ckvars, mgvars, xvars>>

(* ... and without one its INSERT runs: UniqueViolationError when a        *)
(* pending row of the account has been committed meanwhile                 *)
try_insert(o) ==
    LET a == ops[o].account_id
    IN  /\ ops[o].pc = "insert"
        /\ IF IndexConflict(a, "pending", 0)
           THEN /\ ops' = Finish(o, "exception")
                /\ UNCHANGED <<updates, next_id>>
           ELSE /\ updates' = updates \cup {NewRow(a, ops[o].current_time)}
                /\ next_id' = next_id + 1
                /\ ops' = [ops EXCEPT ![o].pc = IF is_new(NewRow(a, ops[o].current_time), ops[o].current_time)
                                                 THEN "processing" ELSE "done",
                                      ![o].update_id = next_id, ![o].inserted = TRUE,
                                      ![o].proceeded = is_new(NewRow(a, ops[o].current_time), ops[o].current_time)]
        /\ UNCHANGED <<wall, last, ckvars, mgvars, xvars>>

(* force=True: force_create deletes the active rows and raises *)
force_begin(o) ==
    /\ ops[o].pc = "force"
    /\ updates' = delete_active(ops[o].account_id)
    /\ ops' = Finish(o, "exception")
    /\ UNCHANGED <<next_id, wall, last, ckvars, mgvars, xvars>>

(* password = decrypt_password(account.encrypted_pass), which raises when   *)
(* the stored data does not authenticate under the configured key, then    *)
(* update_status(update_record.id, PROCESSING); no handler surrounds them  *)
set_processing(o, decrypted) ==
    /\ ops[o].pc = "processing"
    /\ IF ~decrypted
       THEN /\ ops' = Finish(o, "exception")
            /\ UNCHANGED updates
       ELSE /\ updates' = update_status(ops[o].update_id, "processing")
            /\ ops' = IF update_status_raises(ops[o].update_id, "processing")
                      THEN Finish(o, "exception")
                      ELSE [ops EXCEPT ![o].pc = "login"]
    /\ UNCHANGED <<next_id, wall, last, ckvars, mgvars, xvars>>

(* auth_service.login returns a cookie or None *)
login(o, new_cookie) ==
    /\ ops[o].pc = "login"
    /\ ops' = [ops EXCEPT ![o].pc = "final", ![o].new_cookie = new_cookie]
    /\ UNCHANGED <<updates, next_id, wall, last, ckvars, mgvars, xvars>>

(* if new_cookie: account_repo.update_cookie(account_id, new_cookie), the   *)
(* user's fingerprint, update_status(update_record.id, COMPLETED); else    *)
(* update_status(update_record.id, FAILED, "登录失败")                     *)
set_terminal(o) ==
    LET status == IF ops[o].new_cookie THEN "completed" ELSE "failed"
    IN  /\ ops[o].pc = "final"
        /\ cookie_from' = IF ops[o].new_cookie
                          THEN [cookie_from EXCEPT ![ops[o].account_id] = ops[o].update_id]
                          ELSE cookie_from
        /\ updates' = update_status(ops[o].update_id, status)
        /\ ops' = Finish(o, status)
        /\ UNCHANGED <<next_id, wall, last, ckvars, mgvars, conv, tick, batch, crypt, push,
                       solver, auth, adapter, boot, sessions, hourly, zone, setters, pool>>

NextUpdate ==
    \/ WallTick
    \/ \E o \in Ops, a \in Accounts, force \in BOOLEAN : update_account_cookie(o, a, force)
    \/ \E o \in Ops : try_existing(o)
    \/ \E o \in Ops : try_insert(o)
    \/ \E o \in Ops : force_begin(o)
    \/ \E o \in Ops, decrypted \in BOOLEAN : set_processing(o, decrypted)
    \/ \E o \in Ops, new_cookie \in BOOLEAN : login(o, new_cookie)
    \/ \E o \in Ops : set_terminal(o)

----------------------------------------------------------------------------
(* SpecManage: the AccountManager. The handlers of the bot call it one at  *)
(* a time, except that add_account invocations are let to overlap, as a    *)
(* claim about concurrent add_account calls needs them to.                 *)

Telegrams == {1, 2, 3}
SiteUsernames == {"a", "b"}
(* the arguments of add_account: a key that is in the table from the start *)
(* and two keys of a user without a users row                              *)
AddInputs == {<<1, "a">>, <<3, "a">>, <<3, "b">>}
CheckinModes == {"fixed", "random"}
default_checkin_hour == 4
default_push_hour == 9
HourInputs == {NULL, 0}

MaxAdds == 2
MaxAccountSeq == 4

Adds == 1..MaxAdds
(* the account the calls of SpecManage are about *)
Managed == {1}

get_by_telegram_id(telegram_id) == {u \in users : u.telegram_id = telegram_id}

get_by_id(account_id) == {a \in account_rows : a.id = account_id}

(* SELECT * FROM accounts WHERE checkin_hour = $1 AND status = 'active',   *)
(* over the rows of the accounts table as add_account writes them          *)
get_by_checkin_time_rows(hour) ==
    {a \in account_rows : a.checkin_hour = hour /\ a.status = "active"}

AccountConflict_never(user_id, site_username) == FALSE

(* UNIQUE (user_id, site, site_username), the site being the same *)
AccountConflict(user_id, site_username) ==
    \E a \in account_rows : a.user_id = user_id /\ a.site_username = site_username

(* the three early returns shared by delete_account, update_account_cookie, *)
(* update_checkin_time and toggle_checkin_mode, without the owner's test    *)
Refusal_without_owner(telegram_id, account_id) ==
    IF get_by_telegram_id(telegram_id) = {} THEN "no_user"
    ELSE IF get_by_id(account_id) = {} THEN "no_account"
    ELSE "none"

(* if not user / if not account / if account.user_id != user.id *)
Refusal(telegram_id, account_id) ==
    IF get_by_telegram_id(telegram_id) = {} THEN "no_user"
    ELSE IF get_by_id(account_id) = {} THEN "no_account"
    ELSE IF \E u \in get_by_telegram_id(telegram_id), a \in get_by_id(account_id) :
                a.user_id # u.id
         THEN "not_owner"
         ELSE "none"

Returned(op, success) == [op |-> op, success |-> success]

NoReturn == Returned("none", FALSE)

IdleAdd == [pc |-> "idle", telegram_id |-> 0, site_username |-> "", user_id |-> 0,
            fingerprint |-> FALSE, account_id |-> 0]

InitManage ==
    /\ users = {[id |-> t, telegram_id |-> t, fingerprint |-> FALSE] : t \in {1, 2}}
    /\ account_rows = {[id |-> a, user_id |-> a, site_username |-> "a",
                        checkin_mode |-> "fixed", checkin_hour |-> CheckinHour[a],
                        push_hour |-> default_push_hour, cookie |-> TRUE,
                        status |-> "active", updated_at |-> 0] : a \in Accounts}
    /\ account_seq = 3
    /\ adds = [k \in Adds |-> IdleAdd]
    /\ ret = NoReturn

(* no refresh is between its first and its last statement *)
NoRefreshRunning == \A o \in Ops : ops[o].pc = "idle"

(* DELETE FROM accounts WHERE id = $1, with ON DELETE CASCADE on           *)
(* checkin_logs.account_id and account_updates.account_id                  *)
delete_account(telegram_id, account_id) ==
    /\ NoRefreshRunning
    /\ IF Refusal(telegram_id, account_id) # "none"
       THEN /\ ret' = Returned("delete_account", FALSE)
            /\ UNCHANGED <<account_rows, logs, updates>>
       ELSE /\ account_rows' = account_rows \ get_by_id(account_id)
            /\ logs' = SelectSeq(logs, LAMBDA l : l.account # account_id)
            /\ updates' = {u \in updates : u.account_id # account_id}
            /\ ret' = Returned("delete_account", TRUE)
    /\ UNCHANGED <<users, account_seq, adds, clock, accounts, today_cache, cache_date, runs,
                   next_id, wall, last, ops, xvars>>

(* the argument written through, None included *)
final_hour_as_given(current, chosen) == chosen

(* final_x = account.x if x is None else x *)
final_hour(current, chosen) == IF chosen = NULL THEN current ELSE chosen

(* UPDATE accounts SET checkin_hour = $1, push_hour = $2, updated_at = $3  *)
(* WHERE id = $4                                                           *)
update_checkin_time_rows(account_id, checkin_hour, push_hour) ==
    {IF a.id = account_id
     THEN [a EXCEPT !.checkin_hour = checkin_hour, !.push_hour = push_hour,
                    !.updated_at = wall]
     ELSE a : a \in account_rows}

(* final_checkin_hour / final_push_hour, then account_repo.update_checkin_time *)
update_checkin_time(telegram_id, account_id, checkin_hour, push_hour) ==
    /\ NoRefreshRunning
    /\ IF Refusal(telegram_id, account_id) # "none"
       THEN /\ ret' = Returned("update_checkin_time", FALSE)
            /\ UNCHANGED account_rows
       ELSE /\ \E account \in get_by_id(account_id) :
                  account_rows' = update_checkin_time_rows(account_id,
                      final_hour(account.checkin_hour, checkin_hour),
                      final_hour(account.push_hour, push_hour))
            /\ ret' = Returned("update_checkin_time", TRUE)
    /\ UNCHANGED <<users, account_seq, adds, ckvars, upvars, xvars>>

(* new_mode = FIXED if account.checkin_mode == RANDOM else RANDOM *)
toggle_checkin_mode(telegram_id, account_id) ==
    /\ NoRefreshRunning
    /\ IF Refusal(telegram_id, account_id) # "none"
       THEN /\ ret' = Returned("toggle_checkin_mode", FALSE)
            /\ UNCHANGED account_rows
       ELSE /\ account_rows' =
                  {IF a.id = account_id
                   THEN [a EXCEPT !.checkin_mode = IF a.checkin_mode = "random" THEN "fixed"
                                                   ELSE "random",
                                  !.updated_at = wall]
                   ELSE a : a \in account_rows}
            /\ ret' = Returned("toggle_checkin_mode", TRUE)
    /\ UNCHANGED <<users, account_seq, adds, ckvars, upvars, xvars>>

(* update_account_cookie from its first line: the three early returns, and *)
(* for the owner step 1, which the actions of SpecUpdate carry on.  The    *)
(* calls of SpecManage come one after the other and take the first slot.   *)
update_account_cookie_call(telegram_id, o, account_id, force) ==
    /\ NoRefreshRunning
    /\ IF Refusal(telegram_id, account_id) # "none"
       THEN /\ ret' = Returned("update_account_cookie", FALSE)
            /\ UNCHANGED <<users, account_rows, account_seq, adds, ckvars, upvars, xvars>>
       ELSE next_id <= MaxRows /\ update_account_cookie(o, account_id, force)

(* the invocations have no identity: of the arrangements of the same       *)
(* invocations over the slots one is kept                                  *)
AddOrders == Permutations(Adds)

ArrangedAdds(as) ==
    CHOOSE g \in {[k \in Adds |-> as[p[k]]] : p \in AddOrders} : TRUE

(* add_account returns: the invocation is over and its result is kept *)
AddReturns(k, success) ==
    /\ adds' = ArrangedAdds([adds EXCEPT ![k] = IdleAdd])
    /\ ret' = Returned("add_account", success)

(* a call of add_account begins *)
add_account(k, telegram_id, site_username) ==
    /\ adds[k].pc = "idle"
    /\ \A q \in Adds : q < k => adds[q].pc # "idle"
    /\ adds' = ArrangedAdds([adds EXCEPT ![k] = [IdleAdd EXCEPT !.pc = "user", !.telegram_id = telegram_id,
                                                   !.site_username = site_username]])
    /\ UNCHANGED <<users, account_rows, account_seq, ret, ckvars, upvars, xvars>>

(* user = await self.user_repo.get_by_telegram_id(telegram_id) *)
add_get_user(k) ==
    /\ adds[k].pc = "user"
    /\ IF get_by_telegram_id(adds[k].telegram_id) = {}
       THEN adds' = ArrangedAdds([adds EXCEPT ![k].pc = "create_user"])
       ELSE \E u \in get_by_telegram_id(adds[k].telegram_id) :
               adds' = ArrangedAdds([adds EXCEPT ![k].pc = "login", ![k].user_id = u.id,
                                    ![k].fingerprint = u.fingerprint])
    /\ UNCHANGED <<users, account_rows, account_seq, ret, ckvars, upvars, xvars>>

(* user = await self.user_repo.create(telegram_id=telegram_id): telegram_id *)
(* is UNIQUE, and the error of a second INSERT leaves add_account           *)
add_create_user(k) ==
    /\ adds[k].pc = "create_user"
    /\ IF get_by_telegram_id(adds[k].telegram_id) # {}
       THEN /\ adds' = ArrangedAdds([adds EXCEPT ![k] = IdleAdd])
            /\ ret' = Returned("add_account raised", FALSE)
            /\ UNCHANGED users
       ELSE /\ users' = users \cup {[id |-> Cardinality(users) + 1,
                                     telegram_id |-> adds[k].telegram_id,
                                     fingerprint |-> FALSE]}
            /\ adds' = ArrangedAdds([adds EXCEPT ![k].pc = "login", ![k].user_id = Cardinality(users) + 1])
            /\ UNCHANGED ret
    /\ UNCHANGED <<account_rows, account_seq, ckvars, upvars, xvars>>

(* a test that takes every login for a success *)
login_failed_never(cookie) == FALSE

(* if not cookie *)
login_failed(cookie) == ~cookie

(* cookie = await self.auth_service.login(...); if not cookie: return *)
add_login(k, cookie) ==
    /\ adds[k].pc = "login"
    /\ IF ~login_failed(cookie)
       THEN /\ adds' = ArrangedAdds([adds EXCEPT ![k].pc = IF adds[k].fingerprint THEN "create"
                                              ELSE "fingerprint"])
            /\ UNCHANGED ret
       ELSE AddReturns(k, FALSE)
    /\ UNCHANGED <<users, account_rows, account_seq, ckvars, upvars, xvars>>

(* if not user.fingerprint: await self.user_repo.update(user.id, fingerprint=...) *)
add_fingerprint(k) ==
    /\ adds[k].pc = "fingerprint"
    /\ users' = {IF u.id = adds[k].user_id THEN [u EXCEPT !.fingerprint = TRUE] ELSE u :
                 u \in users}
    /\ adds' = ArrangedAdds([adds EXCEPT ![k].pc = "create"])
    /\ UNCHANGED <<account_rows, account_seq, ret, ckvars, upvars, xvars>>

(* account = await self.account_repo.create(...): the INSERT takes the next *)
(* id of the sequence and meets UNIQUE (user_id, site, site_username); its  *)
(* error is caught and add_account returns success False                   *)
add_create(k) ==
    /\ adds[k].pc = "create"
    /\ account_seq <= MaxAccountSeq
    /\ account_seq' = account_seq + 1
    /\ IF AccountConflict(adds[k].user_id, adds[k].site_username)
       THEN /\ AddReturns(k, FALSE)
            /\ UNCHANGED account_rows
       ELSE /\ account_rows' = account_rows \cup
                  {[id |-> account_seq, user_id |-> adds[k].user_id,
                    site_username |-> adds[k].site_username, checkin_mode |-> "fixed",
                    checkin_hour |-> default_checkin_hour, push_hour |-> default_push_hour,
                    cookie |-> FALSE, status |-> "active", updated_at |-> wall]}
            /\ adds' = ArrangedAdds([adds EXCEPT ![k].pc = "cookie", ![k].account_id = account_seq])
            /\ UNCHANGED ret
    /\ UNCHANGED <<users, ckvars, upvars, xvars>>

(* await self.account_repo.update_cookie(account.id, cookie); the credits,  *)
(* read and stored afterwards inside their own try, are not a column of     *)
(* account_rows                                                             *)
add_cookie(k) ==
    /\ adds[k].pc = "cookie"
    /\ account_rows' = {IF a.id = adds[k].account_id THEN [a EXCEPT !.cookie = TRUE, !.updated_at = wall]
                                                              ELSE a :
                        a \in account_rows}
    /\ AddReturns(k, TRUE)
    /\ UNCHANGED <<users, account_seq, ckvars, upvars, xvars>>

(* update_account_cookie returns to its handler *)
update_account_cookie_return(o) ==
    /\ ops[o].pc = "done"
    /\ ops' = [ops EXCEPT ![o] = IdleOp]
    /\ ret' = Returned(IF ops[o].outcome = "exception" THEN "update_account_cookie raised"
                       ELSE "update_account_cookie",
                       ops[o].outcome = "completed")
    /\ UNCHANGED <<users, account_rows, account_seq, adds, updates, next_id, wall, last,
                   ckvars, xvars>>

(* the age of a row matters to the refresh alone (SpecUpdate): the calls of *)
(* SpecManage are made at one instant                                      *)
NextManage ==
    \/ \E t \in Telegrams, a \in Managed : delete_account(t, a)
    \/ \E t \in Telegrams, a \in Managed, ch \in HourInputs, ph \in HourInputs :
          update_checkin_time(t, a, ch, ph)
    \/ \E t \in Telegrams, a \in Managed : toggle_checkin_mode(t, a)
    \/ \E t \in Telegrams, a \in Managed, force \in BOOLEAN :
          update_account_cookie_call(t, 1, a, force)
    \/ \E o \in Ops : try_existing(o)
    \/ \E o \in Ops : try_insert(o)
    \/ \E o \in Ops : force_begin(o)
    \/ \E o \in Ops, decrypted \in BOOLEAN : set_processing(o, decrypted)
    \/ \E o \in Ops, new_cookie \in BOOLEAN : login(o, new_cookie)
    \/ \E o \in Ops : set_terminal(o)
    \/ \E o \in Ops : update_account_cookie_return(o)

(* the hours of an account set at different instants *)
NextSetHours ==
    \/ WallTick
    \/ \E t \in Telegrams, a \in Managed, ch \in HourInputs, ph \in HourInputs :
          update_checkin_time(t, a, ch, ph)
    \/ \E t \in Telegrams, a \in Managed : toggle_checkin_mode(t, a)
    \/ \E t \in Telegrams, a \in Managed : delete_account(t, a)

NextAdd ==
    \/ \E k \in Adds, i \in AddInputs : add_account(k, i[1], i[2])
    \/ \E k \in Adds : add_get_user(k)
    \/ \E k \in Adds : add_create_user(k)
    \/ \E k \in Adds, cookie \in BOOLEAN : add_login(k, cookie)
    \/ \E k \in Adds : add_fingerprint(k)
    \/ \E k \in Adds : add_create(k)
    \/ \E k \in Adds : add_cookie(k)

----------------------------------------------------------------------------
(* SpecConversation: the add-account conversation of one user. The        *)
(* handlers run one at a time. add_account is called with what the user    *)
(* typed; whether its login succeeds is an input.                          *)

MAX_RETRIES == 3

(* data of the session row and context.user_data["pending_account"] *)
NoData == [username |-> "", retry_count |-> 0]
NoPending == [username |-> "", retry_count |-> NULL]

InitConversation ==
    conv = [state |-> "END", session |-> NoData, pending |-> NoPending,
            attempts |-> 0, failures |-> 0, last |-> "none", account |-> "none"]

HasPending == conv.pending # NoPending

(* pending.get("retry_count", 0) *)
PendingRetryCount == IF conv.pending.retry_count = NULL THEN 0 ELSE conv.pending.retry_count

(* the call of add_account and the bookkeeping of what the conversation    *)
(* did; account is the stored account of the name that was typed: "old",   *)
(* the one found by the credentials handler, "new", the one add_account    *)
(* has created, or "none"                                                  *)
Attempt(c, ok) ==
    [c EXCEPT !.attempts = @ + 1,
              !.failures = IF ok THEN @ ELSE @ + 1,
              !.last = IF ok THEN "added" ELSE "failed",
              !.account = IF ok THEN "new" ELSE @]

(* entry point: the button add_account *)
add_account_callback ==
    /\ conv.state = "END"
    /\ conv' = [conv EXCEPT !.state = "ADD_ACCOUNT_SITE", !.attempts = 0, !.failures = 0,
                            !.last = "none"]
    /\ UNCHANGED <<ckvars, upvars, mgvars, tick, batch, crypt, push, solver, auth, adapter, boot, sessions, hourly, zone, setters, pool, cookie_from>>

(* session_repo.create(..., data={"site", "prompt_message_id"}) *)
add_account_site ==
    /\ conv.state = "ADD_ACCOUNT_SITE"
    /\ conv' = [conv EXCEPT !.state = "ADD_ACCOUNT_CREDENTIALS", !.session = NoData,
                            !.last = "none"]
    /\ UNCHANGED <<ckvars, upvars, mgvars, tick, batch, crypt, push, solver, auth, adapter, boot, sessions, hourly, zone, setters, pool, cookie_from>>

(* the result of a failed add_account in the add flow: the count goes to   *)
(* the session row                                                         *)
SessionFailure(c, username, retry_count) ==
    LET new_retry_count == retry_count + 1
    IN  IF new_retry_count < MAX_RETRIES
        THEN [c EXCEPT !.state = "LOGIN_FAILED",
                       !.session = [username |-> username, retry_count |-> new_retry_count]]
        ELSE [c EXCEPT !.state = "END"]

(* ... and in the replace flow: the count goes to pending_account, which   *)
(* is deleted when no retry is left                                        *)
PendingFailure(c, retry_count) ==
    LET new_retry_count == retry_count + 1
    IN  IF new_retry_count < MAX_RETRIES
        THEN [c EXCEPT !.state = "LOGIN_FAILED", !.pending.retry_count = new_retry_count]
        ELSE [c EXCEPT !.state = "END", !.pending = NoPending]

(* the message with the credentials: an account of that name leads to the  *)
(* confirmation dialog, otherwise add_account is called                    *)
add_account_credentials(username, existing_account, ok) ==
    /\ conv.state = "ADD_ACCOUNT_CREDENTIALS"
    /\ conv' = IF existing_account
               THEN [conv EXCEPT !.state = "ADD_ACCOUNT_CONFIRM_REPLACE",
                                 !.pending = [username |-> username, retry_count |-> NULL],
                                 !.last = "none", !.account = "old"]
               ELSE IF ok
               THEN [Attempt([conv EXCEPT !.account = "none"], TRUE)
                        EXCEPT !.state = "ADD_ACCOUNT_MODE"]
               ELSE SessionFailure(Attempt([conv EXCEPT !.account = "none"], FALSE), username,
                                   conv.session.retry_count)
    /\ UNCHANGED <<ckvars, upvars, mgvars, tick, batch, crypt, push, solver, auth, adapter, boot, sessions, hourly, zone, setters, pool, cookie_from>>

(* await account_manager.delete_account(existing_account_id, ...): the row *)
(* of the account, and with it its cookie, credits, checkin_count and logs *)
delete_existing(c) == [c EXCEPT !.account = "none"]

(* delete_account, add_account and what follows, in the replace flow *)
Replace(ok) ==
    IF ok
    THEN [Attempt(delete_existing(conv), TRUE) EXCEPT !.state = "ADD_ACCOUNT_MODE",
                                                      !.pending = NoPending]
    ELSE PendingFailure(Attempt(delete_existing(conv), FALSE), PendingRetryCount)

(* the buttons of the confirmation dialog *)
confirm_replace_callback(choice, ok) ==
    /\ conv.state = "ADD_ACCOUNT_CONFIRM_REPLACE"
    /\ conv' = IF ~HasPending \/ choice = "confirm_replace_no"
               THEN [conv EXCEPT !.state = "END", !.last = "none"]
               ELSE Replace(ok)
    /\ UNCHANGED <<ckvars, upvars, mgvars, tick, batch, crypt, push, solver, auth, adapter, boot, sessions, hourly, zone, setters, pool, cookie_from>>

(* the button retry_login: with a pending_account that names an existing   *)
(* account the replace flow is retried, otherwise the session's data       *)
retry_login_callback(session_found, ok) ==
    /\ conv.state = "LOGIN_FAILED"
    /\ conv' = IF HasPending
               THEN Replace(ok)
               ELSE IF ~session_found
               THEN [conv EXCEPT !.state = "END", !.last = "none"]
               ELSE IF ok
               THEN [Attempt(conv, TRUE) EXCEPT !.state = "ADD_ACCOUNT_MODE"]
               ELSE SessionFailure(Attempt(conv, FALSE), conv.session.username,
                                   conv.session.retry_count)
    /\ UNCHANGED <<ckvars, upvars, mgvars, tick, batch, crypt, push, solver, auth, adapter, boot, sessions, hourly, zone, setters, pool, cookie_from>>

(* the buttons mode_fixed and mode_random end the conversation *)
add_account_mode ==
    /\ conv.state = "ADD_ACCOUNT_MODE"
    /\ conv' = [conv EXCEPT !.state = "END", !.last = "none"]
    /\ UNCHANGED <<ckvars, upvars, mgvars, tick, batch, crypt, push, solver, auth, adapter, boot, sessions, hourly, zone, setters, pool, cookie_from>>

(* cancel, and back_to_menu in LOGIN_FAILED: return_to_main_menu *)
cancel_callback ==
    /\ conv.state \in {"ADD_ACCOUNT_SITE", "ADD_ACCOUNT_CREDENTIALS", "ADD_ACCOUNT_MODE",
                        "LOGIN_FAILED"}
    /\ conv' = [conv EXCEPT !.state = "END", !.last = "none"]
    /\ UNCHANGED <<ckvars, upvars, mgvars, tick, batch, crypt, push, solver, auth, adapter, boot, sessions, hourly, zone, setters, pool, cookie_from>>

NextConversation ==
    \/ add_account_callback
    \/ add_account_site
    \/ \E n \in SiteUsernames, e \in BOOLEAN, ok \in BOOLEAN : add_account_credentials(n, e, ok)
    \/ \E c \in {"confirm_replace_yes", "confirm_replace_no"}, ok \in BOOLEAN :
          confirm_replace_callback(c, ok)
    \/ \E f \in BOOLEAN, ok \in BOOLEAN : retry_login_callback(f, ok)
    \/ add_account_mode
    \/ cancel_callback

----------------------------------------------------------------------------
(* SpecTick: the control flow of one scheduler tick over several accounts: *)
(* checkin_job_callback, scheduled_checkin, the gathered checkin_with_catch *)
(* tasks and _do_checkin, any statement of which may raise.                *)

NoTask == [pc |-> "absent", result |-> "none"]

InitTick == tick = [state |-> "idle", task |-> [a \in Accounts |-> NoTask]]

Task(a) == tick.task[a]

(* the tick is called; accounts = get_by_checkin_time(current_hour) either *)
(* raises, is empty (return []), or gives the tasks of the gather          *)
tick_scheduled_checkin(raises, due) ==
    /\ tick.state = "idle"
    /\ \A a \in Accounts : Task(a).pc \in {"absent", "done"}
    /\ tick' = IF raises THEN [tick EXCEPT !.state = "raised"]
               ELSE IF due = {} THEN [tick EXCEPT !.state = "returned"]
               ELSE [state |-> "gather",
                     task |-> [a \in Accounts |->
                                 IF a \in due THEN [pc |-> "slots", result |-> "none"]
                                 ELSE NoTask]]
    /\ UNCHANGED <<ckvars, upvars, mgvars, conv, batch, crypt, push, solver, auth, adapter, boot, sessions, hourly, zone, setters, pool, cookie_from>>

(* an exception left a task without being caught: asyncio.gather with      *)
(* return_exceptions=False hands it to scheduled_checkin at once, and the  *)
(* other tasks go on                                                       *)
tick_uncaught(a) ==
    [tick EXCEPT !.task[a] = [pc |-> "done", result |-> "raised"],
                 !.state = IF @ = "gather" THEN "raised" ELSE @]

(* except Exception as e: logger.error(...); return None *)
tick_except(a) == [tick EXCEPT !.task[a] = [pc |-> "done", result |-> "caught"]]

(* _do_checkin: except Exception as e: return {"success": False, ...} *)
do_checkin_except(a) == [tick EXCEPT !.task[a] = [pc |-> "done", result |-> "error"]]

(* available_slots = await self._get_available_slots(account, current_time) *)
tick_available_slots(a, raises) ==
    /\ Task(a).pc = "slots"
    /\ tick' = IF raises THEN tick_except(a) ELSE [tick EXCEPT !.task[a].pc = "should"]
    /\ UNCHANGED <<ckvars, upvars, mgvars, conv, batch, crypt, push, solver, auth, adapter, boot, sessions, hourly, zone, setters, pool, cookie_from>>

(* should_checkin = await self._should_checkin(account, current_time) *)
tick_should_checkin(a, raises, should) ==
    /\ Task(a).pc = "should"
    /\ tick' = IF raises THEN tick_except(a)
               ELSE IF should THEN [tick EXCEPT !.task[a].pc = "cache"]
               ELSE [tick EXCEPT !.task[a] = [pc |-> "done", result |-> "none"]]
    /\ UNCHANGED <<ckvars, upvars, mgvars, conv, batch, crypt, push, solver, auth, adapter, boot, sessions, hourly, zone, setters, pool, cookie_from>>

(* _do_checkin before its try: the cache and get_today_success_count; an   *)
(* account already checked in today gets the short answer                  *)
tick_do_checkin_cache(a, raises, already) ==
    /\ Task(a).pc = "cache"
    /\ tick' = IF raises THEN tick_except(a)
               ELSE IF already THEN [tick EXCEPT !.task[a] = [pc |-> "done", result |-> "result"]]
               ELSE [tick EXCEPT !.task[a].pc = "adapter"]
    /\ UNCHANGED <<ckvars, upvars, mgvars, conv, batch, crypt, push, solver, auth, adapter, boot, sessions, hourly, zone, setters, pool, cookie_from>>

(* inside the try: adapter.checkin, get_today_success_count, log_repo.create *)
tick_do_checkin_adapter(a, raises) ==
    /\ Task(a).pc = "adapter"
    /\ tick' = IF raises THEN do_checkin_except(a) ELSE [tick EXCEPT !.task[a].pc = "store"]
    /\ UNCHANGED <<ckvars, upvars, mgvars, conv, batch, crypt, push, solver, auth, adapter, boot, sessions, hourly, zone, setters, pool, cookie_from>>

(* inside the try: log_repo.create and account_repo.update_credits *)
tick_do_checkin_store(a, raises) ==
    /\ Task(a).pc = "store"
    /\ tick' = IF raises THEN do_checkin_except(a)
               ELSE [tick EXCEPT !.task[a] = [pc |-> "done", result |-> "result"]]
    /\ UNCHANGED <<ckvars, upvars, mgvars, conv, batch, crypt, push, solver, auth, adapter, boot, sessions, hourly, zone, setters, pool, cookie_from>>

(* results_list = await asyncio.gather(...tasks, return_exceptions=False)  *)
(* returns when every task has; scheduled_checkin returns the results      *)
tick_gather_returns ==
    /\ tick.state = "gather"
    /\ \A a \in Accounts : Task(a).pc \in {"absent", "done"}
    /\ tick' = [tick EXCEPT !.state = "returned"]
    /\ UNCHANGED <<ckvars, upvars, mgvars, conv, batch, crypt, push, solver, auth, adapter, boot, sessions, hourly, zone, setters, pool, cookie_from>>

(* checkin_job_callback: the results are logged, an exception of           *)
(* scheduled_checkin is caught and logged; the job waits for its next run  *)
checkin_job_callback ==
    /\ tick.state \in {"returned", "raised"}
    /\ tick' = [tick EXCEPT !.state = "idle"]
    /\ UNCHANGED <<ckvars, upvars, mgvars, conv, batch, crypt, push, solver, auth, adapter, boot, sessions, hourly, zone, setters, pool, cookie_from>>

NextTick ==
    \/ \E raises \in BOOLEAN, due \in SUBSET Accounts : tick_scheduled_checkin(raises, due)
    \/ \E a \in Accounts, raises \in BOOLEAN : tick_available_slots(a, raises)
    \/ \E a \in Accounts, raises \in BOOLEAN, should \in BOOLEAN :
          tick_should_checkin(a, raises, should)
    \/ \E a \in Accounts, raises \in BOOLEAN, already \in BOOLEAN :
          tick_do_checkin_cache(a, raises, already)
    \/ \E a \in Accounts, raises \in BOOLEAN : tick_do_checkin_adapter(a, raises)
    \/ \E a \in Accounts, raises \in BOOLEAN : tick_do_checkin_store(a, raises)
    \/ tick_gather_returns
    \/ checkin_job_callback

----------------------------------------------------------------------------
(* SpecBatch: checkin_all_callback, the handler that checks in the user's  *)
(* accounts one after the other with a CheckinService of its own, and      *)
(* refreshes the cookie by force when the site refuses it.                 *)

(* accounts = await account_manager.get_user_accounts(user.id) *)
UserAccounts == <<1, 2>>

ErrorCodes == {"blocked", "invalid_cookie", "checkin_failed"}

BatchResults ==
    [success : {TRUE}, credits_after : Balances, credits_delta : Deltas, error_code : {"none"}]
    \cup [success : {FALSE}, credits_after : {NULL}, credits_delta : {0}, error_code : ErrorCodes]

NoBatch == [pc |-> "idle", i |-> 0, refreshes |-> 0, retries |-> 0, failed_count |-> 0,
            success_count |-> 0]

InitBatch == batch = NoBatch

(* the button: for account in accounts *)
checkin_all_callback ==
    /\ batch.pc \in {"idle", "done", "raised"}
    /\ batch' = [NoBatch EXCEPT !.pc = "checkin", !.i = 1]
    /\ UNCHANGED <<ckvars, upvars, mgvars, conv, tick, crypt, push, solver, auth, adapter, boot, sessions, hourly, zone, setters, pool, cookie_from>>

(* if result["success"]: success_count += 1 ... else: failed_count += 1,   *)
(* and the loop goes to the next account                                   *)
BatchRecord(b, success) ==
    [b EXCEPT !.success_count = IF success THEN @ + 1 ELSE @,
              !.failed_count = IF success THEN @ ELSE @ + 1,
              !.i = @ + 1, !.refreshes = 0, !.retries = 0,
              !.pc = IF b.i = Len(UserAccounts) THEN "done" ELSE "checkin"]

(* result = await checkin_service.manual_checkin(account.id): with a       *)
(* success row of today the answer is the short one, otherwise the adapter *)
(* is called, the row is logged and the credits are stored                 *)
batch_manual_checkin(res) ==
    LET a == UserAccounts[batch.i]
        already == get_today_success_count(a) > 0
        result == IF already THEN [res EXCEPT !.success = TRUE] ELSE res
    IN  /\ batch.pc = "checkin"
        /\ Len(logs) < MaxLogs
        /\ logs' = IF already THEN logs
                   ELSE Append(logs, LogRow(a, IF res.success THEN "success" ELSE "failed",
                                            res.credits_delta, clock.day))
        /\ accounts' = IF ~already /\ res.success
                       THEN update_credits(a, res.credits_after, 1)
                       ELSE accounts
        /\ batch' = IF ~result.success /\ result.error_code \in {"invalid_cookie", "blocked"}
                    THEN [batch EXCEPT !.pc = "refresh"]
                    ELSE BatchRecord(batch, result.success)
        /\ UNCHANGED <<clock, today_cache, cache_date, runs, upvars, mgvars, conv, tick, crypt, push, solver, auth, adapter, boot, sessions, hourly, zone, setters, pool, cookie_from>>

(* update_result = await account_manager.update_account_cookie(account.id, *)
(* ..., force=True): force_create deletes the active rows and raises, and  *)
(* nothing in the handler catches it; the branch of a successful refresh,  *)
(* with the second manual_checkin, is never entered                        *)
batch_update_account_cookie ==
    /\ batch.pc = "refresh"
    /\ updates' = delete_active(UserAccounts[batch.i])
    /\ batch' = [batch EXCEPT !.pc = "raised", !.refreshes = @ + 1]
    /\ UNCHANGED <<next_id, wall, last, ops, ckvars, mgvars, conv, tick, crypt, push, solver, auth, adapter, boot, sessions, hourly, zone, setters, pool, cookie_from>>

NextBatch ==
    \/ checkin_all_callback
    \/ \E res \in BatchResults : batch_manual_checkin(res)
    \/ batch_update_account_cookie
    \/ \E t \in ValidTimes : AdvanceClock(t)

----------------------------------------------------------------------------
(* SpecCrypt: core.encryption. Bytes have two bits here instead of eight,  *)
(* so three of them make one base64 character; the key is one byte, the    *)
(* tag of AES-GCM one byte; the nonce keeps its twelve bytes.              *)

NonceLen == 12
MaxPasswordLen == 2

ByteMod == 4
Pad == 64
Chars == {"a", "e'"}
Keys == {1, 2}

(* os.urandom(12): three of the values it can return *)
Nonces == {[i \in 1..NonceLen |-> 0],
           [i \in 1..NonceLen |-> IF i = NonceLen THEN 1 ELSE 0],
           [i \in 1..NonceLen |-> IF i = 1 THEN 2 ELSE 0]}

Passwords == UNION {[1..n -> Chars] : n \in 0..MaxPasswordLen}

RECURSIVE Sum(_)
Sum(bs) == IF bs = <<>> THEN 0 ELSE Head(bs) + Sum(Tail(bs))

(* str.encode(): one byte for "a", a lead byte and a continuation byte for *)
(* the accented letter                                                     *)
RECURSIVE utf8_encode(_)
utf8_encode(str) ==
    IF str = <<>> THEN <<>>
    ELSE (IF Head(str) = "a" THEN <<1>> ELSE <<3, 2>>) \o utf8_encode(Tail(str))

(* bytes.decode(): "?" stands for UnicodeDecodeError *)
RECURSIVE utf8_decode(_)
utf8_decode(bs) ==
    IF bs = <<>> THEN <<>>
    ELSE IF Head(bs) = 1 THEN <<"a">> \o utf8_decode(Tail(bs))
    ELSE IF Head(bs) = 3 /\ Len(bs) >= 2 /\ bs[2] = 2
         THEN <<"e'">> \o utf8_decode(Tail(Tail(bs)))
    ELSE <<"?">>

(* the key stream of the counter mode and the authentication tag *)
Keystream(key, nonce, i) == (key + Sum(nonce) + i) % ByteMod

Tag(key, nonce, ct) == (key + 2 * Sum(nonce) + Sum(ct) + 1) % ByteMod

(* AESGCM(key).encrypt(nonce, data, None): the ciphertext, then the tag *)
aesgcm_encrypt(key, nonce, data) ==
    LET ct == [i \in 1..Len(data) |-> (data[i] + Keystream(key, nonce, i)) % ByteMod]
    IN  Append(ct, Tag(key, nonce, ct))

(* AESGCM(key).decrypt(nonce, data, None): <<ByteMod>> stands for InvalidTag *)
aesgcm_decrypt(key, nonce, data) ==
    IF data = <<>> THEN <<ByteMod>>
    ELSE LET ct == SubSeq(data, 1, Len(data) - 1)
         IN  IF data[Len(data)] # Tag(key, nonce, ct) THEN <<ByteMod>>
             ELSE [i \in 1..Len(ct) |->
                      (ct[i] + ByteMod - Keystream(key, nonce, i)) % ByteMod]

(* base64.b64encode: three bytes a character, "=" for the missing ones *)
RECURSIVE b64encode(_)
b64encode(bs) ==
    IF bs = <<>> THEN <<>>
    ELSE IF Len(bs) = 1 THEN <<bs[1] * 16, Pad, Pad>>
    ELSE IF Len(bs) = 2 THEN <<bs[1] * 16 + bs[2] * 4, Pad>>
    ELSE <<bs[1] * 16 + bs[2] * 4 + bs[3]>> \o b64encode(SubSeq(bs, 4, Len(bs)))

(* base64.b64decode *)
RECURSIVE b64decode(_)
b64decode(cs) ==
    IF cs = <<>> THEN <<>>
    ELSE IF Len(cs) >= 3 /\ cs[2] = Pad /\ cs[3] = Pad THEN <<cs[1] \div 16>>
    ELSE IF Len(cs) >= 2 /\ cs[2] = Pad THEN <<cs[1] \div 16, (cs[1] \div 4) % 4>>
    ELSE <<cs[1] \div 16, (cs[1] \div 4) % 4, cs[1] % 4>> \o b64decode(Tail(cs))

(* combined[:12] and a cut one byte short of it *)
nonce_of_short(combined) == SubSeq(combined, 1, NonceLen - 1)

nonce_of(combined) == SubSeq(combined, 1, NonceLen)

(* combined = nonce + ciphertext; return base64.b64encode(combined).decode() *)
encrypt_password(key, nonce, password) ==
    b64encode(nonce \o aesgcm_encrypt(key, nonce, utf8_encode(password)))

(* combined = base64.b64decode(encrypted_data); nonce = combined[:12];     *)
(* ciphertext = combined[12:]; aesgcm.decrypt(...).decode()                *)
decrypt_password(key, encrypted_data) ==
    LET combined == b64decode(encrypted_data)
        nonce == nonce_of(combined)
        ciphertext == SubSeq(combined, Len(nonce) + 1, Len(combined))
        plaintext == aesgcm_decrypt(key, nonce, ciphertext)
    IN  IF plaintext = <<ByteMod>> THEN <<"InvalidTag">> ELSE utf8_decode(plaintext)

NoText == <<"not called">>

NoCrypt == [key |-> 0, password |-> <<>>, nonces |-> <<>>, encrypted |-> <<>>,
            decrypted |-> NoText]

InitCrypt == crypt = NoCrypt

(* the process starts: get_settings() fixes the key for its lifetime, and  *)
(* a caller holds a password                                               *)
crypt_start(key, password) ==
    /\ crypt.key = 0
    /\ crypt' = [crypt EXCEPT !.key = key, !.password = password]
    /\ UNCHANGED <<ckvars, upvars, mgvars, conv, tick, batch, push, solver, auth, adapter, boot, sessions, hourly, zone, setters, pool, cookie_from>>

(* a call of encrypt_password(password): the nonce is drawn *)
encrypt_call(nonce) ==
    /\ crypt.key # 0
    /\ Len(crypt.encrypted) < 2
    /\ crypt' = [crypt EXCEPT !.nonces = Append(@, nonce),
                              !.encrypted = Append(@, encrypt_password(crypt.key, nonce,
                                                                       crypt.password))]
    /\ UNCHANGED <<ckvars, upvars, mgvars, conv, tick, batch, push, solver, auth, adapter, boot, sessions, hourly, zone, setters, pool, cookie_from>>

(* a call of decrypt_password on what the latest encrypt_password returned *)
decrypt_call ==
    /\ crypt.encrypted # <<>>
    /\ crypt' = [crypt EXCEPT !.decrypted =
                     decrypt_password(crypt.key, crypt.encrypted[Len(crypt.encrypted)])]
    /\ UNCHANGED <<ckvars, upvars, mgvars, conv, tick, batch, push, solver, auth, adapter, boot, sessions, hourly, zone, setters, pool, cookie_from>>

NextCrypt ==
    \/ \E key \in Keys, password \in Passwords : crypt_start(key, password)
    \/ \E nonce \in Nonces : encrypt_call(nonce)
    \/ decrypt_call

----------------------------------------------------------------------------
(* SpecHour: the hour of an account is set from the keyboard of 24 hours   *)
(* (0..23), and the ticks of local hours 4 and 0 select their accounts.    *)

HourChoices == {0, default_checkin_hour}
HourTimes == {[day |-> 0, hour |-> 4, minute |-> 12], [day |-> 1, hour |-> 0, minute |-> 6]}

(* UPDATE accounts SET checkin_hour = $1 ... WHERE id = $4 *)
update_checkin_time_row(a, checkin_hour) ==
    /\ accounts[a].checkin_hour # checkin_hour
    /\ accounts' = [accounts EXCEPT ![a].checkin_hour = checkin_hour]
    /\ UNCHANGED <<clock, logs, today_cache, cache_date, runs, upvars, mgvars, xvars>>

NextHour ==
    \/ \E t \in HourTimes : AdvanceClock(t)
    \/ \E a \in Accounts, h \in HourChoices : update_checkin_time_row(a, h)
    \/ \E r \in Runs, a \in Accounts : manual_checkin(r, a)
    \/ scheduled_checkin(FALSE)
    \/ \E r \in Runs : checkin_with_catch(r)
    \/ \E r \in Runs : checkin_skipped(r)
    \/ \E r \in Runs : do_checkin_begin(r)
    \/ \E r \in Runs : do_checkin_cache(r)
    \/ \E r \in Runs : do_checkin_short(r)
    \/ \E r \in Runs, res \in AdapterResults : do_checkin_adapter(r, res)
    \/ \E r \in Runs : do_checkin_log(r)
    \/ \E r \in Runs : do_checkin_credits(r)

----------------------------------------------------------------------------
(* SpecSelect: the accounts table changes (status, hour) between the ticks *)
(* of local hours 4 and 0, and each tick selects its accounts.             *)

AccountStatuses == {"active", "inactive", "error"}
SelectHours == {NULL, 0, default_checkin_hour}
Edited == {2}

(* UPDATE accounts SET status = $1 ... WHERE id = $3 *)
update_status_row(a, status) ==
    /\ accounts[a].status # status
    /\ accounts' = [accounts EXCEPT ![a].status = status]
    /\ UNCHANGED <<clock, logs, today_cache, cache_date, runs, upvars, mgvars, xvars>>

NextSelect ==
    \/ \E t \in HourTimes : AdvanceClock(t)
    \/ \E a \in Edited, h \in SelectHours : update_checkin_time_row(a, h)
    \/ \E a \in Edited, status \in AccountStatuses : update_status_row(a, status)
    \/ scheduled_checkin(FALSE)
    \/ \E r \in Runs : checkin_with_catch(r)
    \/ \E r \in Runs : checkin_skipped(r)
    \/ \E r \in Runs : do_checkin_begin(r)
    \/ \E r \in Runs : do_checkin_cache(r)
    \/ \E r \in Runs, res \in AdapterResults : do_checkin_adapter(r, res)
    \/ \E r \in Runs : do_checkin_log(r)
    \/ \E r \in Runs : do_checkin_credits(r)

----------------------------------------------------------------------------
(* SpecPush: the jobs of the job queue.  The check-in job fills today's    *)
(* logs at hour 4; the queue then runs its jobs at 09:00 and 09:01.        *)

PushTimes == {[day |-> 0, hour |-> default_push_hour, minute |-> 0],
              [day |-> 0, hour |-> default_push_hour, minute |-> 1]}

(* the methods that AccountRepository and NotificationService define *)
AccountRepositoryMethods ==
    {"create", "get_by_id", "get_by_user", "get_by_site", "update_cookie", "update_credits",
     "update_checkin_time", "update_status", "update_checkin_mode", "delete",
     "get_all_active", "get_by_checkin_time"}

NotificationServiceMethods ==
    {"format_checkin_results", "_format_user_message", "should_send_notification",
     "get_pending_notifications"}

(* the users of the accounts of this push hour that have a log row today *)
PushDue(t) ==
    {a.user_id : a \in {b \in account_rows :
        /\ b.push_hour = t.hour
        /\ \E i \in 1..Len(logs) : logs[i].account = b.id /\ logs[i].at.day = t.day}}

(* push_job_callback at time t, as the set of messages it sends: nothing   *)
(* off minute 0; a call of a method that the object does not have raises   *)
(* AttributeError, which the except clauses log                            *)
push_job_callback(t) ==
    IF t.minute # 0 THEN {}
    ELSE IF "get_by_push_time" \notin AccountRepositoryMethods THEN {}
    ELSE {[chat_id |-> u, at |-> t] :
             u \in IF "format_today_logs" \in NotificationServiceMethods
                   THEN PushDue(t) ELSE {}}

(* what register_jobs registers *)
RegisteredJobs == {"checkin_job_callback", "session_cleanup", "cache_cleanup"}

InitPush == push = [jobs |-> {}, ran |-> IdleRun.t, sent |-> {}]

(* post_init: register_jobs(application) *)
register_jobs ==
    /\ push.jobs = {}
    /\ push' = [push EXCEPT !.jobs = RegisteredJobs]
    /\ UNCHANGED <<ckvars, upvars, mgvars, conv, tick, batch, crypt, solver, auth, adapter, boot, sessions, hourly, zone, setters, pool, cookie_from>>

(* the job queue runs the repeating jobs of this minute *)
job_queue_run ==
    /\ push.jobs # {}
    /\ push.ran # clock
    /\ push' = [push EXCEPT !.ran = clock,
                            !.sent = @ \cup IF "push_job_callback" \in push.jobs
                                            THEN push_job_callback(clock) ELSE {}]
    /\ UNCHANGED <<ckvars, upvars, mgvars, conv, tick, batch, crypt, solver, auth, adapter, boot, sessions, hourly, zone, setters, pool, cookie_from>>

NextPush ==
    \/ \E t \in PushTimes : AdvanceClock(t)
    \/ register_jobs
    \/ job_queue_run
    \/ scheduled_checkin(FALSE)
    \/ \E r \in Runs : checkin_with_catch(r)
    \/ \E r \in Runs : checkin_skipped(r)
    \/ \E r \in Runs : do_checkin_begin(r)
    \/ \E r \in Runs : do_checkin_cache(r)
    \/ \E r \in Runs, res \in AdapterResults : do_checkin_adapter(r, res)
    \/ \E r \in Runs : do_checkin_log(r)
    \/ \E r \in Runs : do_checkin_credits(r)

----------------------------------------------------------------------------
(* SpecSolve: CloudflyerSolver.solve *)

max_retries == 3

Tokens == {"t1", "t2"}

(* what createTask can answer: a task id, HTTP 500, a body without taskId, *)
(* or a transport error                                                    *)
CreateOutcomes == {"task", "http_error", "no_task_id", "raises"}

(* what one getTaskResult poll can give: code 0 stands for an exception    *)
PollOutcomes ==
    {[code |-> 200, status |-> "completed", token |-> tk] : tk \in Tokens \cup {""}}
    \cup {[code |-> 200, status |-> "processing", token |-> tk] : tk \in {"t1", ""}}
    \cup {[code |-> 500, status |-> "", token |-> ""], [code |-> 0, status |-> "", token |-> ""]}

(* a poll ends the loop with a defect: the status is not looked at *)
poll_returns_any_status(res) == res.code = 200 /\ res.token # ""

(* result_response.status_code == 200, status == "completed", and "if token" *)
poll_returns(res) == res.code = 200 /\ res.status = "completed" /\ res.token # ""

InitSolve == solver = [pc |-> "idle", attempt |-> 0, polls |-> <<>>, token |-> ""]

(* session.post(create_task_url): the early returns and the except clause *)
solve_create_task(outcome) ==
    /\ solver.pc = "idle"
    /\ solver' = [solver EXCEPT !.pc = IF outcome = "task" THEN "poll" ELSE "returned"]
    /\ UNCHANGED <<ckvars, upvars, mgvars, conv, tick, batch, crypt, push, auth, adapter, boot, sessions, hourly, zone, setters, pool, cookie_from>>

(* one pass of "for attempt in range(1, self.max_retries + 1)": the poll,  *)
(* a return with the token, or the sleep; after the last pass return None  *)
solve_poll(res) ==
    /\ solver.pc = "poll"
    /\ solver.attempt < max_retries
    /\ solver' = [solver EXCEPT
          !.attempt = @ + 1,
          !.polls = Append(@, res),
          !.token = IF poll_returns(res) THEN res.token ELSE "",
          !.pc = IF poll_returns(res) \/ solver.attempt + 1 = max_retries
                 THEN "returned" ELSE "poll"]
    /\ UNCHANGED <<ckvars, upvars, mgvars, conv, tick, batch, crypt, push, auth, adapter, boot, sessions, hourly, zone, setters, pool, cookie_from>>

NextSolve ==
    \/ \E outcome \in CreateOutcomes : solve_create_task(outcome)
    \/ \E res \in PollOutcomes : solve_poll(res)

----------------------------------------------------------------------------
(* SpecLogin: SiteAuthService.login, with the captcha solver it calls *)

NoCookie == "None"

(* the answer to the login POST (code 0 stands for an exception), and the  *)
(* cookie string made of the session's cookie jar                          *)
LoginResponses ==
    {[code |-> c, success |-> b, jar |-> j] :
        c \in {200, 403}, b \in BOOLEAN, j \in {"", "session=1"}}
    \cup {[code |-> 0, success |-> FALSE, jar |-> ""]}

(* "if not turnstile_token" with a defect: never true *)
token_missing_never(turnstile_token) == FALSE

(* if not turnstile_token *)
token_missing(turnstile_token) == turnstile_token = ""

InitLogin == auth = [pc |-> "idle", requests |-> <<>>, token |-> "", cookie |-> NoCookie,
                     response |-> [code |-> 0, success |-> FALSE, jar |-> ""]]

(* session.get(login_url); an exception ends the call in the except clause *)
login_get(raises) ==
    /\ auth.pc = "idle"
    /\ auth' = [auth EXCEPT !.requests = <<"GET">>,
                            !.pc = IF raises THEN "returned" ELSE "solve"]
    /\ UNCHANGED <<ckvars, upvars, mgvars, conv, tick, batch, crypt, push, solver, adapter, boot, sessions, hourly, zone, setters, pool, cookie_from>>

(* captcha_solver.solve(...) has returned: without token the call returns  *)
(* None, with one it goes on to the POST                                   *)
login_token ==
    /\ auth.pc = "solve"
    /\ solver.pc = "returned"
    /\ auth' = [auth EXCEPT !.requests = Append(@, "solve"),
                            !.token = solver.token,
                            !.pc = IF token_missing(solver.token) THEN "returned" ELSE "post"]
    /\ UNCHANGED <<ckvars, upvars, mgvars, conv, tick, batch, crypt, push, solver, adapter, boot, sessions, hourly, zone, setters, pool, cookie_from>>

(* session.post(login_api, json=login_data) and the check of its answer *)
login_post(response) ==
    /\ auth.pc = "post"
    /\ auth' = [auth EXCEPT !.requests = Append(@, "POST"),
                            !.response = response,
                            !.cookie = IF response.code = 200 /\ response.success
                                       THEN response.jar ELSE NoCookie,
                            !.pc = "returned"]
    /\ UNCHANGED <<ckvars, upvars, mgvars, conv, tick, batch, crypt, push, solver, adapter, boot, sessions, hourly, zone, setters, pool, cookie_from>>

NextLogin ==
    \/ \E raises \in BOOLEAN : login_get(raises)
    \/ auth.pc = "solve" /\ \E outcome \in CreateOutcomes : solve_create_task(outcome)
    \/ auth.pc = "solve" /\ \E res \in PollOutcomes : solve_poll(res)
    \/ login_token
    \/ \E response \in LoginResponses : login_post(response)

----------------------------------------------------------------------------
(* SpecAdapter: NodeSeekAdapter.checkin and DeepFloodAdapter.checkin.  A   *)
(* message is the set of the marker texts it contains: "drumstick" for the *)
(* reward word, "done_today" for the already-checked-in phrase.            *)

Sites == {"nodeseek", "deepflood"}
Messages == SUBSET {"drumstick", "done_today"}

(* the check-in response: json FALSE is a body that response.json() rejects *)
CheckinResponses ==
    {[code |-> c, json |-> j, message |-> m, success |-> b, status |-> st] :
        c \in {200, 403}, j \in BOOLEAN, m \in Messages, b \in BOOLEAN, st \in {0, 404}}

(* what _fetch_credits returns before and after, and the today-delta of    *)
(* _fetch_credits_and_delta                                                *)
BalanceReads == {NULL, 100}
BalanceRereads == {NULL, 105}
TodayDeltas == {0, 5}

(* "x or 0" *)
OrZero(x) == IF x = NULL THEN 0 ELSE x

Classified(success, error_code, delta, before, after) ==
    [success |-> success, error_code |-> error_code, credits_delta |-> delta,
     credits_before |-> before, credits_after |-> after]

(* the body of checkin after the balance read, for either site *)
adapter_result(response, credits_before, reread, today_delta) ==
    IF response.code = 403
    THEN Classified(FALSE, "blocked", 0, credits_before, credits_before)
    ELSE IF ~response.json
    THEN Classified(FALSE, "exception", 0, NULL, NULL)
    ELSE IF "drumstick" \in response.message \/ response.success
    THEN Classified(TRUE, "", OrZero(reread) - OrZero(credits_before), credits_before, reread)
    ELSE IF "done_today" \in response.message
    THEN Classified(TRUE, "", IF reread = NULL THEN 0 ELSE today_delta, credits_before,
                    IF reread = NULL THEN credits_before ELSE reread)
    ELSE IF response.status = 404
    THEN Classified(FALSE, "invalid_cookie", 0, NULL, NULL)
    ELSE Classified(FALSE, "checkin_failed", 0, credits_before, credits_before)

IdleAdapter ==
    [pc |-> "idle", site |-> "", credits_before |-> NULL, reread |-> NULL, today_delta |-> 0,
     response |-> [code |-> 0, json |-> FALSE, message |-> {}, success |-> FALSE, status |-> 0],
     result |-> Classified(FALSE, "", 0, NULL, NULL)]

InitAdapter == adapter = IdleAdapter

(* adapter.checkin(account) of the account's site *)
adapter_checkin(site, response, credits_before, reread, today_delta) ==
    /\ adapter.pc = "idle"
    /\ adapter' = [pc |-> "returned", site |-> site, credits_before |-> credits_before,
                   reread |-> reread, today_delta |-> today_delta, response |-> response,
                   result |-> adapter_result(response, credits_before, reread, today_delta)]
    /\ UNCHANGED <<ckvars, upvars, mgvars, conv, tick, batch, crypt, push, solver, auth, boot, sessions, hourly, zone, setters, pool, cookie_from>>

(* the next call *)
adapter_again ==
    /\ adapter.pc = "returned"
    /\ adapter' = IdleAdapter
    /\ UNCHANGED <<ckvars, upvars, mgvars, conv, tick, batch, crypt, push, solver, auth, boot, sessions, hourly, zone, setters, pool, cookie_from>>

NextAdapter ==
    \/ \E site \in Sites, response \in CheckinResponses, credits_before \in BalanceReads,
          reread \in BalanceRereads, today_delta \in TodayDeltas :
          adapter_checkin(site, response, credits_before, reread, today_delta)
    \/ adapter_again

----------------------------------------------------------------------------
(* SpecStartup: the process from its start with a configured               *)
(* ENCRYPTION_KEY: get_settings, create_app and post_init, then the        *)
(* account operations the handlers serve.                                  *)

MaxServed == 3

(* a configured key: the length of the string, of its UTF-8 encoding, and  *)
(* of base64.b64decode(key_str), NULL when b64decode raises                *)
EncryptionKeys ==
    {[len |-> 16, bytes |-> 16, decoded |-> 12],
     [len |-> 32, bytes |-> 32, decoded |-> 24],
     [len |-> 32, bytes |-> 33, decoded |-> NULL],
     [len |-> 40, bytes |-> 40, decoded |-> 30],
     [len |-> 40, bytes |-> 40, decoded |-> NULL],
     [len |-> 44, bytes |-> 44, decoded |-> 32],
     [len |-> 44, bytes |-> 44, decoded |-> 33]}

(* encryption_key: str = Field(..., min_length=32) *)
settings_valid(key) == key.len >= 32

(* _get_key: the length of the key it returns, NULL when it raises *)
get_key(key) ==
    IF key.len = 44 THEN (IF key.decoded = 32 THEN 32 ELSE NULL)
    ELSE IF key.len = 32 THEN key.bytes
    ELSE IF key.decoded = 32 THEN 32 ELSE NULL

(* key = _get_key(); aesgcm = AESGCM(key): raises unless the key has 32    *)
(* bytes (16 and 24 are never returned by _get_key)                        *)
cipher_raises(key) == get_key(key) # 32

NoKey == [len |-> 0, bytes |-> 0, decoded |-> NULL]

InitStartup ==
    boot = [pc |-> "off", key |-> NoKey, jobs |-> {}, served |-> 0, logins |-> 0,
            stored |-> 0, raised |-> 0, decrypts |-> 0]

(* the process is started with ENCRYPTION_KEY in its environment *)
start_process(key) ==
    /\ boot.pc = "off"
    /\ boot' = [boot EXCEPT !.pc = "settings", !.key = key]
    /\ UNCHANGED <<ckvars, upvars, mgvars, conv, tick, batch, crypt, push, solver, auth, adapter, sessions, hourly, zone, setters, pool, cookie_from>>

(* settings = get_settings() at import: pydantic validates the fields *)
get_settings ==
    /\ boot.pc = "settings"
    /\ boot' = [boot EXCEPT !.pc = IF settings_valid(boot.key) THEN "create_app" ELSE "exited"]
    /\ UNCHANGED <<ckvars, upvars, mgvars, conv, tick, batch, crypt, push, solver, auth, adapter, sessions, hourly, zone, setters, pool, cookie_from>>

(* create_app() and run_polling(): post_init checks the database and       *)
(* registers the jobs; the handlers are served from then on                *)
post_init ==
    /\ boot.pc = "create_app"
    /\ boot' = [boot EXCEPT !.pc = "polling", !.jobs = RegisteredJobs]
    /\ UNCHANGED <<ckvars, upvars, mgvars, conv, tick, batch, crypt, push, solver, auth, adapter, sessions, hourly, zone, setters, pool, cookie_from>>

(* an operation that uses no password: update_checkin_time,                *)
(* toggle_checkin_mode, delete_account, a check-in                         *)
serve_operation ==
    /\ boot.pc = "polling"
    /\ boot.served < MaxServed
    /\ boot' = [boot EXCEPT !.served = @ + 1]
    /\ UNCHANGED <<ckvars, upvars, mgvars, conv, tick, batch, crypt, push, solver, auth, adapter, sessions, hourly, zone, setters, pool, cookie_from>>

(* add_account: step 3, auth_service.login, comes before step 5,           *)
(* encrypt_password                                                        *)
add_account_login(cookie) ==
    /\ boot.pc = "polling"
    /\ boot.served < MaxServed
    /\ boot' = [boot EXCEPT !.pc = IF cookie THEN "encrypt" ELSE "polling",
                            !.served = @ + 1, !.logins = @ + 1]
    /\ UNCHANGED <<ckvars, upvars, mgvars, conv, tick, batch, crypt, push, solver, auth, adapter, sessions, hourly, zone, setters, pool, cookie_from>>

(* encrypted_pass = encrypt_password(password), then account_repo.create *)
add_account_encrypt ==
    /\ boot.pc = "encrypt"
    /\ boot' = IF cipher_raises(boot.key)
               THEN [boot EXCEPT !.pc = "polling", !.raised = @ + 1]
               ELSE [boot EXCEPT !.pc = "polling", !.stored = @ + 1]
    /\ UNCHANGED <<ckvars, upvars, mgvars, conv, tick, batch, crypt, push, solver, auth, adapter, sessions, hourly, zone, setters, pool, cookie_from>>

(* update_account_cookie: decrypt_password comes before the login *)
refresh_decrypt ==
    /\ boot.pc = "polling"
    /\ boot.served < MaxServed
    /\ boot.stored > 0
    /\ boot' = IF cipher_raises(boot.key)
               THEN [boot EXCEPT !.served = @ + 1, !.decrypts = @ + 1, !.raised = @ + 1]
               ELSE [boot EXCEPT !.served = @ + 1, !.decrypts = @ + 1, !.logins = @ + 1]
    /\ UNCHANGED <<ckvars, upvars, mgvars, conv, tick, batch, crypt, push, solver, auth, adapter, sessions, hourly, zone, setters, pool, cookie_from>>

NextStartup ==
    \/ \E key \in EncryptionKeys : start_process(key)
    \/ get_settings
    \/ post_init
    \/ serve_operation
    \/ \E cookie \in BOOLEAN : add_account_login(cookie)
    \/ add_account_encrypt
    \/ refresh_decrypt

----------------------------------------------------------------------------
(* SpecSession: SessionRepository over the sessions table. now() is the    *)
(* naive local clock (wall); the database has a clock of its own.          *)

MaxSessions == 2

(* ttl = timedelta(minutes=get_settings().session_ttl_minutes), counted in *)
(* steps of the clock                                                      *)
session_ttl == 1

NoSession == [id |-> 0, telegram_id |-> 0, created_at |-> 0, expires_at |-> 0]

InitSession ==
    sessions = [rows |-> {}, seq |-> 1,
                got |-> [telegram_id |-> 0, at |-> 0, session |-> NoSession, deleted |-> 0]]

(* INSERT INTO sessions (..., expires_at, created_at, updated_at)          *)
(* VALUES (..., current_time + ttl, current_time, current_time)            *)
session_create(telegram_id) ==
    LET current_time == wall
    IN  /\ sessions.seq <= MaxSessions
        /\ sessions' = [sessions EXCEPT
                           !.rows = @ \cup {[id |-> sessions.seq, telegram_id |-> telegram_id,
                                             created_at |-> current_time,
                                             expires_at |-> current_time + session_ttl]},
                           !.seq = @ + 1]
        /\ UNCHANGED <<ckvars, upvars, mgvars, conv, tick, batch, crypt, push, solver, auth, adapter, boot, hourly, zone, setters, pool, cookie_from>>

(* SELECT * FROM sessions WHERE telegram_id = $1                           *)
(* ORDER BY created_at DESC LIMIT 1: any of the rows created last          *)
latest_sessions(telegram_id) ==
    {u \in sessions.rows :
        /\ u.telegram_id = telegram_id
        /\ \A v \in sessions.rows : v.telegram_id = telegram_id => v.created_at <= u.created_at}

(* a test that lets every session through *)
expired_never(session, current) == FALSE

(* if now() > session.expires_at *)
expired(session, current) == current > session.expires_at

(* get_by_telegram_id: no row, an expired row (deleted, None), or the row *)
session_get_by_telegram_id(telegram_id) ==
    /\ IF latest_sessions(telegram_id) = {}
       THEN sessions' = [sessions EXCEPT !.got = [telegram_id |-> telegram_id, at |-> wall,
                                                  session |-> NoSession, deleted |-> 0]]
       ELSE \E record \in latest_sessions(telegram_id) :
               IF expired(record, wall)
               THEN sessions' = [sessions EXCEPT
                                    !.rows = @ \ {record},
                                    !.got = [telegram_id |-> telegram_id, at |-> wall,
                                             session |-> NoSession, deleted |-> record.id]]
               ELSE sessions' = [sessions EXCEPT
                                    !.got = [telegram_id |-> telegram_id, at |-> wall,
                                             session |-> record, deleted |-> 0]]
    /\ UNCHANGED <<ckvars, upvars, mgvars, conv, tick, batch, crypt, push, solver, auth, adapter, boot, hourly, zone, setters, pool, cookie_from>>

(* DELETE FROM sessions WHERE expires_at < NOW(), NOW() being the clock of *)
(* the database server                                                     *)
clean_expired(db_now) ==
    /\ \E u \in sessions.rows : u.expires_at < db_now
    /\ sessions' = [sessions EXCEPT !.rows = {u \in @ : ~(u.expires_at < db_now)}]
    /\ UNCHANGED <<ckvars, upvars, mgvars, conv, tick, batch, crypt, push, solver, auth, adapter, boot, hourly, zone, setters, pool, cookie_from>>

NextSession ==
    \/ WallTick
    \/ \E t \in {1, 2} : session_create(t)
    \/ \E t \in {1, 2} : session_get_by_telegram_id(t)
    \/ \E db_now \in 0..(MaxWall + 1) : clean_expired(db_now)

----------------------------------------------------------------------------
(* SpecSlots: one check-in hour of account 1, a tick in every minute, over *)
(* every placement of the success rows of the days before                  *)

(* all_slots = [1, 2, 3, 4, 5] *)
SlotsPerHour == 5

MinutesPerHour == SlotsPerHour * SlotMinutes

(* the day of the ticks: LookbackDays + 1 earlier days lie before it *)
Today == LookbackDays + 1

(* one minute of each of the five slots of an hour *)
RowMinutes == {(k - 1) * SlotMinutes + 6 : k \in 1..SlotsPerHour}

(* at most one success row on each earlier day, at the check-in hour: a    *)
(* minute per day or none.  The day that lies wholly outside the lookback  *)
(* has its row, if any, in the last slot.                                  *)
Placements ==
    {p \in [0..(Today - 1) -> RowMinutes \cup {NULL}] : p[0] \in {NULL, MinutesPerHour - 6}}

EarlierRows(p) ==
    LET row(d) == [account |-> 1, status |-> "success", credits_delta |-> 5,
                   at |-> [day |-> d, hour |-> default_checkin_hour, minute |-> p[d]],
                   by |-> NULL]
    IN  SelectSeq([i \in 1..Today |-> row(i - 1)], LAMBDA r : r.at.minute # NULL)

InitSlots == hourly = [pc |-> "idle", passed |-> NULL]

(* the history of the account when its check-in hour begins *)
slot_history(p) ==
    /\ hourly.pc = "idle"
    /\ logs = <<>>
    /\ logs' = EarlierRows(p)
    /\ clock' = [day |-> Today, hour |-> default_checkin_hour, minute |-> 0]
    /\ hourly' = [hourly EXCEPT !.pc = "ticking"]
    /\ UNCHANGED <<accounts, today_cache, cache_date, runs, upvars, mgvars,
                   conv, tick, batch, crypt, push, solver, auth, adapter, boot, sessions, zone, setters, pool, cookie_from>>

(* the job of one minute, up to the first tick that enters _do_checkin:    *)
(* scheduled_checkin reads now() and the accounts due this hour, and       *)
(* checkin_with_catch enters _do_checkin, which logs the adapter's result, *)
(* when _should_checkin lets the account through; then the minute is over  *)
minute_tick(success) ==
    LET current_time == clock
        due == get_by_checkin_time(current_time.hour)
        passes == 1 \in due /\ should_checkin(1, current_time)
        closing == current_time.minute = MinutesPerHour - 1
    IN  /\ hourly.pc = "ticking"
        /\ hourly' = IF passes THEN [pc |-> "ran", passed |-> current_time.minute]
                      ELSE IF closing THEN [hourly EXCEPT !.pc = "over"]
                      ELSE hourly
        /\ logs' = IF passes
                    THEN Append(logs, LogRow(1, IF success THEN "success" ELSE "failed",
                                             IF success THEN 5 ELSE 0, NULL))
                    ELSE logs
        /\ clock' = IF closing
                     THEN [current_time EXCEPT !.hour = @ + 1, !.minute = 0]
                     ELSE [current_time EXCEPT !.minute = @ + 1]
        /\ UNCHANGED <<accounts, today_cache, cache_date, runs, upvars, mgvars,
                       conv, tick, batch, crypt, push, solver, auth, adapter, boot, sessions, zone, setters, pool, cookie_from>>

NextSlots ==
    \/ \E p \in Placements : slot_history(p)
    \/ \E success \in BOOLEAN : minute_tick(success)

----------------------------------------------------------------------------
(* SpecZone: the scheduler's cache over a day rollover, with the system's  *)
(* time zone set apart from the configured one                             *)

(* the system on the configured zone, or 16 hours ahead of it: a system on *)
(* UTC under Asia/Shanghai is 8 hours behind, which is 16 hours ahead with *)
(* the system's dates counted from one day earlier                         *)
SystemLeads == {0, 16}

ZoneHours == {0, 20}
ZoneTimes == {[day |-> 0, hour |-> 20, minute |-> 6], [day |-> 0, hour |-> 20, minute |-> 12],
              [day |-> 1, hour |-> 0, minute |-> 6]}

InitZone == zone = [set |-> FALSE, ahead |-> 0]

(* the process starts under the TZ of its environment, before its         *)
(* scheduler has run                                                       *)
system_timezone(ahead) ==
    /\ ~zone.set
    /\ cache_date = NULL
    /\ \A r \in Runs : ~Active(r)
    /\ zone' = [set |-> TRUE, ahead |-> ahead]
    /\ UNCHANGED <<ckvars, upvars, mgvars, conv, tick, batch, crypt, push, solver, auth,
                   adapter, boot, sessions, hourly, setters, pool, cookie_from>>

NextZone ==
    \/ \E ahead \in SystemLeads : system_timezone(ahead)
    \/ \E t \in ZoneTimes : AdvanceClock(t)
    \/ \E h \in ZoneHours : update_checkin_time_row(1, h)
    \/ \E r \in Runs : manual_checkin(r, 1)
    \/ scheduled_checkin(FALSE)
    \/ \E r \in Runs : checkin_with_catch(r)
    \/ \E r \in Runs : checkin_skipped(r)
    \/ \E r \in Runs : do_checkin_begin(r)
    \/ \E r \in Runs : do_checkin_cache(r)
    \/ \E r \in Runs : do_checkin_short(r)
    \/ \E r \in Runs, res \in AdapterResults : do_checkin_adapter(r, res)
    \/ \E r \in Runs : do_checkin_log(r)
    \/ \E r \in Runs : do_checkin_credits(r)

----------------------------------------------------------------------------
(* SpecSetTimes: calls of AccountManager.update_checkin_time by the owner  *)
(* of account 1 that overlap: each reads the account and writes afterwards *)

Setters == {1, 2}

(* one call sets the check-in hour only, the other the push hour only *)
SetterInputs == {<<0, NULL>>, <<NULL, 0>>}

IdleSetter == [pc |-> "idle", checkin_hour |-> NULL, push_hour |-> NULL,
               final_checkin_hour |-> NULL, final_push_hour |-> NULL, success |-> FALSE]

InitSetTimes == setters = [c \in Setters |-> IdleSetter]

(* update_checkin_time(account_id=1, telegram_id=1, checkin_hour, push_hour) *)
set_time_call(c, checkin_hour, push_hour) ==
    /\ setters[c].pc = "idle"
    /\ setters' = [setters EXCEPT ![c] = [IdleSetter EXCEPT !.pc = "read",
                                              !.checkin_hour = checkin_hour,
                                              !.push_hour = push_hour]]
    /\ UNCHANGED <<ckvars, upvars, mgvars, conv, tick, batch, crypt, push, solver, auth,
                   adapter, boot, sessions, hourly, zone, pool, cookie_from>>

(* the user and the account are read, the owner is checked and the final   *)
(* hours are taken from the row that was read                              *)
set_time_read(c) ==
    /\ setters[c].pc = "read"
    /\ IF Refusal(1, 1) # "none"
       THEN setters' = [setters EXCEPT ![c].pc = "done"]
       ELSE \E account \in get_by_id(1) :
               setters' = [setters EXCEPT
                   ![c].pc = "write",
                   ![c].final_checkin_hour = final_hour(account.checkin_hour, setters[c].checkin_hour),
                   ![c].final_push_hour = final_hour(account.push_hour, setters[c].push_hour)]
    /\ UNCHANGED <<ckvars, upvars, mgvars, conv, tick, batch, crypt, push, solver, auth,
                   adapter, boot, sessions, hourly, zone, pool, cookie_from>>

(* await self.account_repo.update_checkin_time(account_id, final_checkin_hour, *)
(* final_push_hour), and the call returns success                          *)
set_time_write(c) ==
    /\ setters[c].pc = "write"
    /\ account_rows' = update_checkin_time_rows(1, setters[c].final_checkin_hour,
                                                setters[c].final_push_hour)
    /\ setters' = [setters EXCEPT ![c].pc = "done", ![c].success = TRUE]
    /\ UNCHANGED <<users, account_seq, adds, ret, ckvars, upvars, conv, tick, batch, crypt,
                   push, solver, auth, adapter, boot, sessions, hourly, zone, pool, cookie_from>>

NextSetTimes ==
    \/ WallTick
    \/ \E c \in Setters, i \in SetterInputs : set_time_call(c, i[1], i[2])
    \/ \E c \in Setters : set_time_read(c)
    \/ \E c \in Setters : set_time_write(c)

----------------------------------------------------------------------------
(* SpecPool: repository operations of the asyncio tasks over the asyncpg   *)
(* pool, through BaseRepository._get_connection and _release_connection    *)

(* asyncpg.create_pool(..., max_size=20), scaled down *)
max_size == 2

Tasks == {1, 2}
Connections == 1..max_size
RepositoryOps == {"delete", "get_by_telegram_id"}
SessionRecords == {"none", "valid", "expired"}

IdleTask == [pc |-> "idle", op |-> "", nested |-> FALSE]

(* out: the connections that are acquired; contexts[t]: NULL, or the       *)
(* connection of the _acquire_context of the DatabaseConnection filed      *)
(* under the id of task t                                                  *)
InitPool == pool = [out |-> {}, contexts |-> [t \in Tasks |-> NULL],
                    tasks |-> [t \in Tasks |-> IdleTask]]

(* a task calls an operation of a repository *)
repository_call(t, op) ==
    /\ pool.tasks[t].pc = "idle"
    /\ pool' = [pool EXCEPT !.tasks[t] = [pc |-> "get_connection", op |-> op, nested |-> FALSE]]
    /\ UNCHANGED <<ckvars, upvars, mgvars, conv, tick, batch, crypt, push, solver, auth,
                   adapter, boot, sessions, hourly, zone, setters, cookie_from>>

(* _get_connection: the task's DatabaseConnection, made if _contexts has   *)
(* none, is entered: self._acquire_context = self._pool.acquire() and the  *)
(* connection is awaited, which waits while the pool has none free         *)
get_connection(t) ==
    /\ pool.tasks[t].pc = "get_connection"
    /\ \E conn \in Connections \ pool.out :
          pool' = [pool EXCEPT !.out = @ \cup {conn},
                               !.contexts[t] = conn,
                               !.tasks[t].pc = "query"]
    /\ UNCHANGED <<ckvars, upvars, mgvars, conv, tick, batch, crypt, push, solver, auth,
                   adapter, boot, sessions, hourly, zone, setters, cookie_from>>

(* the statement of the operation; get_by_telegram_id calls                *)
(* self.delete(session.id) inside its try when the session has expired     *)
repository_query(t, record) ==
    /\ pool.tasks[t].pc = "query"
    /\ pool' = IF /\ pool.tasks[t].op = "get_by_telegram_id" /\ ~pool.tasks[t].nested
                  /\ record = "expired"
               THEN [pool EXCEPT !.tasks[t].pc = "get_connection", !.tasks[t].nested = TRUE]
               ELSE [pool EXCEPT !.tasks[t].pc = "release"]
    /\ UNCHANGED <<ckvars, upvars, mgvars, conv, tick, batch, crypt, push, solver, auth,
                   adapter, boot, sessions, hourly, zone, setters, cookie_from>>

(* finally: _release_connection: if the task has an entry in _contexts it  *)
(* is exited (its _acquire_context releases its connection) and deleted;   *)
(* the operation returns, the nested one to the finally of its caller      *)
release_connection(t) ==
    /\ pool.tasks[t].pc = "release"
    /\ pool' = [pool EXCEPT
                   !.out = IF pool.contexts[t] = NULL THEN @ ELSE @ \ {pool.contexts[t]},
                   !.contexts[t] = NULL,
                   !.tasks[t] = IF pool.tasks[t].nested
                                THEN [@ EXCEPT !.nested = FALSE]
                                ELSE IdleTask]
    /\ UNCHANGED <<ckvars, upvars, mgvars, conv, tick, batch, crypt, push, solver, auth,
                   adapter, boot, sessions, hourly, zone, setters, cookie_from>>

NextPool ==
    \/ \E t \in Tasks, op \in RepositoryOps : repository_call(t, op)
    \/ \E t \in Tasks : get_connection(t)
    \/ \E t \in Tasks, record \in SessionRecords : repository_query(t, record)
    \/ \E t \in Tasks : release_connection(t)

----------------------------------------------------------------------------
(* The specifications *)

Init == InitCheckin /\ InitUpdates /\ InitManage /\ InitConversation /\ InitTick /\ InitBatch /\ InitCrypt /\ InitPush /\ InitSolve /\ InitLogin /\ InitAdapter /\ InitStartup /\ InitSession /\ InitSlots /\ InitZone /\ InitSetTimes /\ InitPool /\ InitRefreshed

(* ticks may overrun their minute and overlap the next tick *)
Next == NextCheckin(TRUE)

Spec == Init /\ [][Next]_vars

(* the job queue starts a tick only when the tick before has returned *)
NextSerial == NextCheckin(FALSE)

SpecSerial == Init /\ [][NextSerial]_vars

SpecRepo == Init /\ [][NextRepo]_vars

SpecUpdate == Init /\ [][NextUpdate]_vars

SpecManage == Init /\ [][NextManage]_vars

SpecAdd == Init /\ [][NextAdd]_vars

SpecConversation == Init /\ [][NextConversation]_vars

SpecTick == Init /\ [][NextTick]_vars

SpecBatch == Init /\ [][NextBatch]_vars

SpecCrypt == Init /\ [][NextCrypt]_vars

SpecHour == Init /\ [][NextHour]_vars

SpecSetHours == Init /\ [][NextSetHours]_vars

SpecStartup == Init /\ [][NextStartup]_vars

SpecSession == Init /\ [][NextSession]_vars

SpecSlots == Init /\ [][NextSlots]_vars

SpecZone == Init /\ [][NextZone]_vars

SpecSetTimes == Init /\ [][NextSetTimes]_vars

SpecPool == Init /\ [][NextPool]_vars

(* the job queue runs the check-in job every 60 seconds (run_repeating):   *)
(* while the hour lasts, the tick of the next minute does come             *)
SpecSlotsFair == SpecSlots /\ WF_vars(\E success \in BOOLEAN : minute_tick(success))

SpecSelect == Init /\ [][NextSelect]_vars

SpecPush == Init /\ [][NextPush]_vars

SpecSolve == Init /\ [][NextSolve]_vars

SpecLogin == Init /\ [][NextLogin]_vars

SpecAdapter == Init /\ [][NextAdapter]_vars

TypeOK ==
    /\ clock \in ValidTimes
    /\ Len(logs) <= MaxLogs
    /\ \A a \in Accounts : accounts[a].checkin_count \in 0..MaxLogs
    /\ next_id <= MaxRows + 1

----------------------------------------------------------------------------
(* The claims *)

Days == {t.day : t \in ValidTimes}

SuccessOn(a, d) ==
    {i \in 1..Len(logs) : logs[i].account = a /\ logs[i].status = "success" /\ logs[i].at.day = d}

RunsOf(a) == {r \in Runs : Active(r) /\ runs[r].account = a}

LookbackMinutes == LookbackDays * 24 * 60

(* a task holding x took the step; a task holds y as the step's result *)
Left(x) ==
    Cardinality({r \in Runs : runs[r] = x}) > Cardinality({r \in Runs : runs'[r] = x})

Entered(y) ==
    Cardinality({r \in Runs : runs'[r] = y}) > Cardinality({r \in Runs : runs[r] = y})

(* C1: checkin_logs holds at most one success row per account per local   *)
(* calendar day, under any interleaving of manual check-ins and ticks.     *)
C1_SingleSuccessPerDay ==
    \A a \in Accounts, d \in Days : Cardinality(SuccessOn(a, d)) <= 1

(* C4: once the check-in runs of an account have returned, checkin_count   *)
(* equals the number of distinct local days with a success row.            *)
C4_CountEqualsSuccessDays ==
    \A a \in Accounts :
        RunsOf(a) = {} =>
            accounts[a].checkin_count = Cardinality({d \in Days : SuccessOn(a, d) # {}})

(* C5: two success rows of an account less than LookbackDays apart never   *)
(* share their (hour, slot) pair, whoever wrote them.                      *)
C5_SlotAntiDuplicate ==
    \A i, j \in 1..Len(logs) :
        (/\ i < j
         /\ logs[i].account = logs[j].account
         /\ logs[i].status = "success" /\ logs[j].status = "success"
         /\ logs[i].at.hour = logs[j].at.hour
         /\ Slot(logs[i].at.minute) = Slot(logs[j].at.minute))
        => Abs(logs[j].at) - Abs(logs[i].at) >= LookbackMinutes

(* C6 as stated: the manual calls of one day add at most one row for an    *)
(* account, whatever the first call returned, and a manual call that is    *)
(* not the first of its day writes neither credits nor checkin_count.      *)
C6_Original ==
    /\ \A a \in Accounts, d \in Days :
          Cardinality({i \in 1..Len(logs) : logs[i].account = a /\ logs[i].by = d}) <= 1
    /\ \A r \in Runs :
          (runs[r].pc = "credits" /\ runs[r].manual /\ runs[r].nth = 2)
          => LET a == runs[r].account
             IN  /\ credits_write(r)[a].credits = accounts[a].credits
                 /\ credits_write(r)[a].checkin_count = accounts[a].checkin_count

(* C6 as amended: a manual_checkin called when today's success row exists, *)
(* and running within that day, takes no step that changes checkin_logs or *)
(* the account's credits and checkin_count.                                *)
C6_ManualAfterSuccessIdempotent ==
    [][\A r \in Runs :
          (/\ runs[r].manual /\ runs[r].after_success
           /\ runs[r].call_day = clock.day
           /\ Left(runs[r]))
          => /\ logs' = logs
             /\ accounts' = accounts
             /\ \A q \in Runs : Entered(runs'[q])
                    => runs'[q].pc \in {"setcache", "short", "idle"}]_vars

(* C6 witness: such a call has reached the short-circuit *)
C6_Witness ==
    \E r \in Runs :
        /\ runs[r].manual /\ runs[r].after_success /\ runs[r].pc = "short"
        /\ runs[r].call_day = clock.day /\ runs[r].nth = 2

(* C7: a run entered after today's success was logged, on the scheduler's  *)
(* service or on a new one, never reaches the site adapter nor the writes. *)
C7_ShortCircuitAfterSuccess ==
    \A r \in Runs :
        (Active(r) /\ runs[r].after_success /\ runs[r].call_day = clock.day)
        => runs[r].pc \in {"begin", "setcache", "short"}

Covered(a, t) ==
    \E i \in 1..Len(logs) :
        /\ logs[i].account = a /\ logs[i].status = "success"
        /\ Abs(clock) - Abs(logs[i].at) < LookbackMinutes
        /\ logs[i].at.hour = t.hour
        /\ logs[i].at.minute \div SlotMinutes = t.minute \div SlotMinutes

(* C8: a tick starts one task for each active account whose checkin_hour   *)
(* is the tick's hour and for no other account; the task is filtered out   *)
(* (no check-in run, no adapter call) when a success row of the last       *)
(* LookbackDays has the tick's (hour, slot), and enters the check-in       *)
(* service otherwise.                                                      *)
C8_TickFilter ==
    [][/\ \A r \in Runs :
             (runs[r].pc = "should" /\ Left(runs[r]))
             => /\ \E q \in Runs : Entered(runs'[q])
                /\ \A q \in Runs : Entered(runs'[q])
                      => /\ runs'[q].account = runs[r].account
                         /\ runs'[q].pc = IF Covered(runs[r].account, runs[r].t)
                                          THEN "skipped" ELSE "begin"
       /\ (\E q \in Runs : runs'[q].pc = "should" /\ Entered(runs'[q]))
          => \A a \in Accounts :
                (accounts[a].status = "active" /\ accounts[a].checkin_hour = clock.hour)
                <=> \E q \in Runs : /\ runs'[q].pc = "should" /\ Entered(runs'[q])
                                    /\ runs'[q].account = a /\ runs'[q].t = clock
       /\ \A q \in Runs :
             (runs'[q].pc = "adapter" /\ Entered(runs'[q]))
             => \E r \in Runs : /\ Left(runs[r])
                                 /\ runs[r].pc \in {"begin", "setcache"}
                                 /\ runs[r].account = runs'[q].account]_vars

(* C8 witness: a task has been filtered out by a row of an earlier day *)
C8_Witness ==
    \E r \in Runs :
        /\ runs[r].pc = "skipped"
        /\ \E i \in 1..Len(logs) :
              /\ logs[i].account = runs[r].account /\ logs[i].status = "success"
              /\ logs[i].at.day < clock.day

(* C2: each account has at most one account_updates row that is pending    *)
(* or processing.                                                          *)
C2_SingleActiveRow ==
    \A a \in Accounts : Cardinality(ActiveRows(a)) <= 1

(* C10: try_create_or_get_active returns created=true exactly when the     *)
(* call inserted a row.                                                    *)
C10_CreatedIffInserted ==
    last.call = "try_create_or_get_active" => (last.created <=> last.inserted)

Contender(o) == ops[o].pc # "idle" /\ ~ops[o].force /\ ops[o].quiet

Resolved(o) == ops[o].pc \notin {"idle", "try", "insert"}

NoForcedCall == \A o \in Ops : ~ops[o].force

(* C3: of the non-forced requests issued together while no row is active,  *)
(* one inserts a row and proceeds, and each other one returns "update in   *)
(* progress": none raises, none inserts a second row, none also proceeds.  *)
C3_RefreshAtomicity ==
    NoForcedCall =>
    \A p, q \in Ops :
        (/\ p # q /\ Contender(p) /\ Contender(q)
         /\ ops[p].account_id = ops[q].account_id /\ ops[p].born = ops[q].born)
        => /\ ~(ops[p].proceeded /\ ops[q].proceeded)
           /\ ~(ops[p].inserted /\ ops[q].inserted)
           /\ ops[p].outcome # "exception"
           /\ (Resolved(p) /\ Resolved(q)) =>
                 \/ ops[p].proceeded /\ ops[q].outcome = "in_progress"
                 \/ ops[q].proceeded /\ ops[p].outcome = "in_progress"

(* C9: at most one update_account_cookie invocation per account is between *)
(* beginning its update row and writing its terminal status.               *)
C9_SingleInFlight ==
    \A a \in Accounts :
        Cardinality({o \in Ops : ops[o].account_id = a /\ ops[o].pc \in InFlightPcs}) <= 1

(* C11: force_create is all-or-nothing. When the call returns the account  *)
(* has exactly one active row, the newly inserted pending one, and every   *)
(* earlier active row is gone; when the call raises, the set of rows is    *)
(* the one it started from.                                                *)
C11_ForceCreateAllOrNothing ==
    [][last'.call = "force_create" =>
          IF last'.raised
          THEN updates' = updates
          ELSE /\ ActiveRows(last'.account_id) \cap updates' = {}
               /\ \E u \in updates' \ updates :
                     /\ u.id = last'.id
                     /\ u.status = "pending"
                     /\ {w \in updates' : w.account_id = last'.account_id
                                            /\ w.status \in ActiveStatuses} = {u}]_vars

(* C12: an invocation of update_account_cookie that began an update row    *)
(* leaves that row completed when the login gave a cookie and failed in    *)
(* every other outcome, an error while decrypting the password or in the   *)
(* login and store steps included; once the invocation has ended its row   *)
(* is neither pending nor processing.                                      *)
C12_RowReachesTerminalStatus ==
    \A o \in Ops :
        (ops[o].pc = "done" /\ ops[o].inserted) =>
            \A u \in updates :
                u.id = ops[o].update_id =>
                    u.status = IF ops[o].outcome = "completed" THEN "completed" ELSE "failed"

(* the account exists and the caller has no users row that owns it *)
NonOwner(telegram_id, account_id) ==
    /\ get_by_id(account_id) # {}
    /\ ~\E u \in users, a \in account_rows :
            u.telegram_id = telegram_id /\ a.id = account_id /\ a.user_id = u.id

(* C13: delete_account, update_account_cookie, toggle_checkin_mode and     *)
(* update_checkin_time, called by somebody who does not own the account,   *)
(* return success False and leave the accounts, checkin_logs and           *)
(* account_updates tables as they were.                                    *)
C13_NonOwnerChangesNothing ==
    [][\A t \in Telegrams, a \in Managed :
          (/\ NonOwner(t, a)
           /\ \/ delete_account(t, a)
              \/ toggle_checkin_mode(t, a)
              \/ \E ch \in HourInputs, ph \in HourInputs : update_checkin_time(t, a, ch, ph)
              \/ \E o \in Ops, force \in BOOLEAN : update_account_cookie_call(t, o, a, force))
          => (/\ ret'.success = FALSE
              /\ ret'.op \in {"delete_account", "toggle_checkin_mode", "update_checkin_time",
                              "update_account_cookie"}
              /\ UNCHANGED <<account_rows, logs, updates, ops>>)]_vars

(* a refused delete_account has returned while the account, with a row of  *)
(* account_updates and settings changed by its owner, is in the store      *)
C13_Witness ==
    /\ ret = Returned("delete_account", FALSE)
    /\ \E a \in get_by_id(1) : a.checkin_mode = "random" /\ a.checkin_hour = 0
    /\ \E u \in updates : u.account_id = 1

(* C14: no two rows of accounts have the same (user_id, site,              *)
(* site_username), concurrent add_account calls with the same arguments    *)
(* included; an add_account whose key is already in the table returns      *)
(* success False and adds no row.                                          *)
C14_AccountKeyUnique ==
    [][/\ \A a, b \in account_rows' :
             (a.user_id = b.user_id /\ a.site_username = b.site_username) => a = b
       /\ \A k \in Adds :
             (add_create(k) /\ \E a \in account_rows :
                                  /\ a.user_id = adds[k].user_id
                                  /\ a.site_username = adds[k].site_username)
             => (ret' = Returned("add_account", FALSE) /\ account_rows' = account_rows)]_vars

(* an INSERT of add_account has been refused while another add_account,    *)
(* which has just stored its row, is still running                         *)
C14_Witness ==
    /\ ret = Returned("add_account", FALSE)
    /\ \E k \in Adds : adds[k].pc = "cookie"
    /\ Cardinality(account_rows) < account_seq - 1

(* C15: one add-account or replace-account conversation calls the login at *)
(* most three times; after the first and after the second failure the      *)
(* retry is offered, after the third the conversation is over.             *)
C15_ThreeLoginAttempts ==
    /\ conv.attempts <= MAX_RETRIES
    /\ conv.last = "failed" =>
          conv.state = IF conv.failures < MAX_RETRIES THEN "LOGIN_FAILED" ELSE "END"

(* C16: within a tick a failure or an exception for one account, in the    *)
(* slot lookup, the adapter call or a store write, never leaves the        *)
(* gather and never touches the task of another account; the gather, and   *)
(* with it the tick, returns when every task of the tick has ended.        *)
C16_TickContainsFailures ==
    [][/\ (tick.state = "gather" /\ tick'.state # "gather") =>
             /\ tick'.state = "returned"
             /\ \A a \in Accounts : tick'.task[a].pc \in {"absent", "done"}
       /\ \A a \in Accounts :
             (tick'.task[a] # tick.task[a] /\ tick'.task[a].result \in {"caught", "error"})
             => /\ \A b \in Accounts \ {a} : tick'.task[b] = tick.task[b]
                /\ tick'.state = tick.state
       /\ \A a \in Accounts : tick'.task[a].result # "raised"]_vars

(* the tick has returned: one account's slot lookup raised and was caught, *)
(* the other account's check-in went through                               *)
C16_Witness ==
    /\ tick.state = "returned"
    /\ tick.task[1] = [pc |-> "done", result |-> "caught"]
    /\ tick.task[2] = [pc |-> "done", result |-> "result"]

(* C17: in the batch flow a first check-in that fails with invalid_cookie  *)
(* or blocked is followed by one forced cookie refresh and, when that      *)
(* succeeds, by one more check-in; whatever the outcome the flow goes on   *)
(* with the accounts that remain, so the handler ends only after the last  *)
(* account and with every account counted as a success or a failure.       *)
C17_BatchRefreshAndRetry ==
    /\ batch.pc # "raised"
    /\ batch.refreshes <= 1 /\ batch.retries <= batch.refreshes
    /\ batch.pc = "done" => batch.success_count + batch.failed_count = Len(UserAccounts)

(* C18 as stated: decrypt_password gives back what encrypt_password was    *)
(* given, and two calls of encrypt_password never return the same text.    *)
C18_Original ==
    /\ crypt.decrypted # NoText => crypt.decrypted = crypt.password
    /\ Len(crypt.encrypted) = 2 => crypt.encrypted[1] # crypt.encrypted[2]

(* C18: decrypt_password(encrypt_password(p)) = p for every password p,    *)
(* and two calls of encrypt_password on the same password return the same  *)
(* text exactly when they have drawn the same nonce.                       *)
C18_RoundTripAndNonce ==
    /\ crypt.decrypted # NoText => crypt.decrypted = crypt.password
    /\ Len(crypt.encrypted) = 2 =>
          (crypt.encrypted[1] = crypt.encrypted[2] <=> crypt.nonces[1] = crypt.nonces[2])

(* a password with a two-byte letter has been encrypted twice, with two    *)
(* nonces and two results, and the second result has been decrypted        *)
C18_Witness ==
    /\ crypt.password = <<"e'", "a">>
    /\ Len(crypt.encrypted) = 2
    /\ crypt.nonces[1] # crypt.nonces[2]
    /\ crypt.encrypted[1] # crypt.encrypted[2]
    /\ crypt.decrypted = crypt.password

(* C19: two ticks of one (hour, slot) never both have a check-in of an     *)
(* account in flight, and never both invoke the site adapter for it.       *)
(* While the clock is still in the (hour, slot) of the first instant every *)
(* tick so far has that (hour, slot): at most one task of the account is   *)
(* inside _do_checkin, and at most one log row of the account comes from a *)
(* tick (each such row is written after an adapter call).                  *)
C19_OneCheckinPerSlot ==
    (clock.day = 0 /\ HourSlot(clock) = HourSlot([day |-> 0, hour |-> 4, minute |-> 6]))
    => \A a \in Accounts :
          /\ Cardinality({r \in Runs : /\ Active(r) /\ ~runs[r].manual
                                       /\ runs[r].account = a
                                       /\ runs[r].pc \notin {"should", "skipped"}}) <= 1
          /\ Cardinality({i \in 1..Len(logs) : logs[i].account = a /\ logs[i].by = NULL}) <= 1

(* C20: an account whose checkin_hour is 0 is never selected by a tick,    *)
(* at any hour, local hour 0 included: no tick creates a task for it.      *)
C20_HourZeroNeverSelected ==
    [][\A q \in Runs :
          (runs'[q].pc = "should" /\ Entered(runs'[q]))
          => accounts[runs'[q].account].checkin_hour # 0]_vars

(* C21: a tick creates a task only for an account that is active and whose *)
(* checkin_hour is the tick's local hour, and a scheduled check-in is      *)
(* entered only by such a task: an account that is inactive, in error,     *)
(* without an hour or with another hour is not checked in by the tick.     *)
C21_TickSelectsActiveDue ==
    [][/\ \A q \in Runs :
             (runs'[q].pc = "should" /\ Entered(runs'[q]))
             => /\ accounts[runs'[q].account].status = "active"
                /\ accounts[runs'[q].account].checkin_hour = clock.hour
                /\ accounts[runs'[q].account].checkin_hour # NULL
                /\ runs'[q].t = clock
       /\ \A q \in Runs :
             (runs'[q].pc = "begin" /\ ~runs'[q].manual /\ Entered(runs'[q]))
             => \E r \in Runs : /\ Left(runs[r]) /\ runs[r].pc = "should"
                                 /\ runs[r].account = runs'[q].account]_vars

(* C21 witness: a tick has just made a task for one account and none for   *)
(* the other, which has the tick's hour but is in error                    *)
C21_Witness ==
    \E r \in Runs, b \in Accounts :
        /\ runs[r].pc = "should" /\ runs[r].t = clock /\ runs[r].account # b
        /\ accounts[b].status = "error" /\ accounts[b].checkin_hour = clock.hour
        /\ \A q \in Runs : runs[q].account # b

(* C22: when the job queue runs its jobs at minute 0 of local hour H, one   *)
(* message goes to each user owning an account with push_hour = H that has *)
(* log rows today; a run at any other minute sends nothing, and nobody     *)
(* else gets a message.                                                    *)
C22_PushAtMinuteZero ==
    [][push'.ran # push.ran
       => push'.sent \ push.sent =
             IF clock.minute = 0
             THEN {[chat_id |-> u, at |-> clock] : u \in PushDue(clock)}
             ELSE {}]_vars

(* C23: solve makes at most max_retries polls; it returns the token of the *)
(* first poll that is completed with a non-empty token, every other poll   *)
(* being followed by the next one; it returns nothing when the polls are   *)
(* used up or the task was not created.                                    *)
C23_SolveWithinBudget ==
    LET good(res) == res.code = 200 /\ res.status = "completed" /\ res.token # ""
        n == Len(solver.polls)
    IN  /\ n <= max_retries /\ solver.attempt = n
        /\ \A i \in 1..(n - 1) : ~good(solver.polls[i])
        /\ (n > 0 /\ good(solver.polls[n]))
              => solver.pc = "returned" /\ solver.token = solver.polls[n].token
        /\ (n > 0 /\ ~good(solver.polls[n]))
              => /\ solver.token = ""
                 /\ solver.pc = IF n = max_retries THEN "returned" ELSE "poll"
        /\ n = 0 => solver.token = ""

(* C23 witness: the second token came with the last poll of the budget,    *)
(* after a completed poll without token and a poll that raised             *)
C23_Witness ==
    /\ solver.pc = "returned" /\ solver.token = "t2"
    /\ Len(solver.polls) = max_retries
    /\ \E i, j \in 1..(max_retries - 1) :
          /\ solver.polls[i].status = "completed" /\ solver.polls[i].token = ""
          /\ solver.polls[j].code = 0

(* C24: login makes its requests in the order GET login page, captcha      *)
(* solve, login POST; the POST is sent only with the non-empty token the   *)
(* solver returned; with an empty token the call returns no cookie and     *)
(* sends no POST; a cookie is returned only for a 200 answer with success. *)
C24_LoginOrder ==
    LET order == <<"GET", "solve", "POST">>
        n == Len(auth.requests)
    IN  /\ n <= 3 /\ auth.requests = SubSeq(order, 1, n)
        /\ n = 3 => /\ auth.token # "" /\ auth.token = solver.token
                    /\ solver.pc = "returned"
        /\ (n >= 2 /\ solver.token = "")
              => auth.pc = "returned" /\ n = 2 /\ auth.cookie = NoCookie
        /\ auth.cookie # NoCookie
              => n = 3 /\ auth.response.code = 200 /\ auth.response.success

(* C24 witness: a login whose captcha took all its polls returned a cookie *)
C24_Witness ==
    /\ auth.pc = "returned" /\ auth.cookie = "session=1"
    /\ Len(solver.polls) = max_retries

(* C25: for a check-in response with a JSON body, either adapter returns   *)
(* the one classification of this precedence: 403 is blocked; else the     *)
(* reward word or success true is a success whose credits_delta is         *)
(* credits_after - credits_before; else the already-done phrase is a       *)
(* success whose credits_delta is the today-delta; else body status 404 is *)
(* invalid_cookie; else checkin_failed.                                    *)
C25_AdapterPrecedence ==
    LET response == adapter.response
        result == adapter.result
    IN  (adapter.pc = "returned" /\ (response.json \/ response.code = 403))
        => IF response.code = 403
           THEN ~result.success /\ result.error_code = "blocked"
           ELSE IF "drumstick" \in response.message \/ response.success
           THEN /\ result.success
                /\ result.credits_after # NULL /\ result.credits_before # NULL
                /\ result.credits_delta = result.credits_after - result.credits_before
           ELSE IF "done_today" \in response.message
           THEN /\ result.success
                /\ result.credits_delta = IF adapter.reread = NULL THEN 0
                                          ELSE adapter.today_delta
           ELSE IF response.status = 404
           THEN ~result.success /\ result.error_code = "invalid_cookie"
           ELSE ~result.success /\ result.error_code = "checkin_failed"

C27_Original ==
    [][\A t \in Telegrams, a \in Managed, ch \in HourInputs, ph \in HourInputs :
          (Refusal(t, a) = "none" /\ update_checkin_time(t, a, ch, ph))
          => \A row \in get_by_id(a) :
                account_rows' = (account_rows \ {row}) \cup
                    {[row EXCEPT !.checkin_hour = IF ch = NULL THEN @ ELSE ch,
                                 !.push_hour = IF ph = NULL THEN @ ELSE ph]}]_vars

(* C27: update_checkin_time called by the owner with checkin_hour = None   *)
(* leaves checkin_hour at the value it had when the call began, with       *)
(* push_hour = None leaves push_hour at that value, and an hour that is    *)
(* given is stored; updated_at is set to the time of the call in every     *)
(* case, and no other field and no other account changes.                  *)
C27_NoneKeepsCurrent ==
    [][\A t \in Telegrams, a \in Managed, ch \in HourInputs, ph \in HourInputs :
          (Refusal(t, a) = "none" /\ update_checkin_time(t, a, ch, ph))
          => \A row \in get_by_id(a) :
                account_rows' = (account_rows \ {row}) \cup
                    {[row EXCEPT !.checkin_hour = IF ch = NULL THEN @ ELSE ch,
                                 !.push_hour = IF ph = NULL THEN @ ELSE ph,
                                 !.updated_at = wall]}]_vars

(* the owner has set push_hour after the clock moved on, with checkin_hour *)
(* = None: the account still has the check-in hour it was created with     *)
C27_Witness ==
    /\ ret = Returned("update_checkin_time", TRUE)
    /\ \E row \in account_rows :
          /\ row.updated_at > 0
          /\ row.checkin_hour = CheckinHour[row.id]
          /\ row.push_hour = 0

(* the configured key is neither 32 raw bytes nor base64 of 32 bytes *)
KeyInvalid(key) == key.bytes # 32 /\ key.decoded # 32

(* C28: a process configured with an ENCRYPTION_KEY that is neither 32 raw *)
(* bytes nor the base64 encoding of 32 bytes fails at startup: it never    *)
(* registers the scheduler jobs, never serves an account operation and     *)
(* never performs a site login.                                            *)
C28_InvalidKeyFailsAtStartup ==
    (boot.pc # "off" /\ KeyInvalid(boot.key))
    => (boot.jobs = {} /\ boot.served = 0 /\ boot.logins = 0)

(* C29: SessionRepository.get_by_telegram_id never returns a session whose *)
(* expires_at is earlier than the current time; when the user's latest     *)
(* session is expired the call deletes that row and returns nothing.       *)
C29_GetNeverReturnsExpired ==
    [][\A t \in {1, 2} :
          session_get_by_telegram_id(t)
          => /\ sessions'.got.session # NoSession
                  => /\ sessions'.got.session \in latest_sessions(t)
                     /\ ~(sessions'.got.session.expires_at < wall)
                     /\ sessions'.rows = sessions.rows
             /\ (\E u \in latest_sessions(t) : u.expires_at < wall)
                  => /\ sessions'.got.session = NoSession
                     /\ \E u \in latest_sessions(t) :
                           u.expires_at < wall /\ sessions'.rows = sessions.rows \ {u}]_vars

(* a get has found the latest session of the user expired and deleted it *)
C29_Witness ==
    /\ sessions.got.deleted # 0
    /\ sessions.got.session = NoSession
    /\ \A u \in sessions.rows : u.id # sessions.got.deleted

(* one step in the life of an account_updates row *)
StatusStep(u, v) ==
    \/ v = u
    \/ /\ u.status = "pending"
       /\ v = [u EXCEPT !.status = "processing", !.started_at = wall]
    \/ /\ u.status = "processing"
       /\ \E status \in {"completed", "failed"} :
             v = [u EXCEPT !.status = status, !.completed_at = wall]

(* C30: every account_updates row created by update_account_cookie goes    *)
(* through its statuses in the order pending, processing, then completed   *)
(* or failed, with started_at recorded on entering processing and          *)
(* completed_at on entering a terminal status; a row that is completed or  *)
(* failed never becomes pending or processing again, and it does not make  *)
(* a later non-forced refresh answer "in progress".                        *)
C30_StatusOrder ==
    [][/\ \A u \in updates : \A v \in updates' : u.id = v.id => StatusStep(u, v)
       /\ \A o \in Ops :
             (ops[o].pc = "try" /\ ops'[o].pc = "done" /\ ops'[o].outcome = "in_progress")
             => ActiveRows(ops[o].account_id) # {}]_vars

(* C31: an add_account call whose login fails returns success=false, and   *)
(* none of its steps, from its first line to that return, changes the      *)
(* accounts, checkin_logs or account_updates table.                        *)
C31_FailedLoginChangesNothing ==
    [][\A k \in Adds :
          /\ add_login(k, FALSE)
                => /\ ret' = Returned("add_account", FALSE)
                   /\ adds' = ArrangedAdds([adds EXCEPT ![k] = IdleAdd])
          /\ (\/ \E i \in AddInputs : add_account(k, i[1], i[2])
              \/ add_get_user(k)
              \/ add_create_user(k)
              \/ add_login(k, FALSE))
                => /\ account_rows' = account_rows
                   /\ account_seq' = account_seq
                   /\ logs' = logs
                   /\ updates' = updates]_vars

(* add_account of a user that had no users row has returned success=false  *)
(* after a failed login: the user was created, no account was              *)
C31_Witness ==
    /\ ret = Returned("add_account", FALSE)
    /\ \E u \in users : u.telegram_id = 3 /\ \A a \in account_rows : a.user_id # u.id
    /\ account_seq = 3

(* C32: when the user confirms the replacement of an existing account and  *)
(* the new login fails, on the first attempt or on a retry, the account    *)
(* that was stored before is still stored afterwards.                      *)
C32_ReplaceKeepsOldAccountOnFailure ==
    [][(/\ HasPending
        /\ conv.account = "old"
        /\ conv'.attempts = conv.attempts + 1
        /\ conv'.last = "failed")
       => conv'.account = "old"]_vars

(* C33: an active account with checkin_hour = h, no success row today and  *)
(* at most one success row on each earlier day: when a tick fires in every *)
(* minute of hour h, one of the ticks passes the anti-duplicate filter and *)
(* runs the check-in service, wherever the earlier rows lie.               *)
C33_SomeTickRuns == (hourly.pc = "ticking") ~> (hourly.pc = "ran")

(* the rows of the four days before fill four slots, the row of the first *)
(* of them still inside the lookback, and the first tick of slot 4 ran     *)
C33_Witness ==
    /\ hourly.pc = "ran"
    /\ hourly.passed = 3 * SlotMinutes
    /\ Cardinality({Slot(logs[i].at.minute) : i \in {j \in 1..Len(logs) :
            logs[j].at.day \in 1..(Today - 1)}}) = 4

(* C34: once a tick has checked an account in and logged the success, no   *)
(* later tick of the same day invokes the site adapter for that account,   *)
(* in the slot of the success or in a later slot of the hour.              *)
C34_NoAdapterAfterTickSuccess ==
    [][\A q \in Runs :
          (runs'[q].pc = "adapter" /\ ~runs'[q].manual /\ Entered(runs'[q]))
          => ~\E i \in SuccessRows(runs'[q].account) :
                  logs[i].by = NULL /\ logs[i].at.day = clock.day]_vars

(* C35: the check-in service decides on the synthetic "already checked in  *)
(* today" success, from its cache or from the count it has just queried,   *)
(* only when the store holds a success row of the account dated the        *)
(* current local day of the configured zone, day rollover included.        *)
C35_AlreadyMeansRowOfToday ==
    [][\A q \in Runs :
          (/\ Entered(runs'[q])
           /\ \/ /\ runs'[q].pc = "short"
                 /\ \E p \in Runs : /\ runs[p].pc = "begin" /\ Left(runs[p])
                                     /\ runs[p].account = runs'[q].account
              \/ runs'[q].pc = "setcache" /\ runs'[q].cnt)
          => SuccessToday(runs'[q].account)]_vars

(* C36: every account row that a tick (by its hour) or a manual check-in   *)
(* (by its id) can read with status active has a cookie, the row that      *)
(* add_account has inserted and not yet given its cookie included.         *)
C36_ActiveRowsHaveCookie ==
    /\ \A hour \in 0..23 : \A a \in get_by_checkin_time_rows(hour) : a.cookie
    /\ \A id \in 1..MaxAccountSeq : \A a \in get_by_id(id) : a.status = "active" => a.cookie

(* C37: two overlapping calls of update_checkin_time by the owner on one   *)
(* account, one with a check-in hour only and one with a push hour only,   *)
(* both take effect: when both have returned the account holds the new     *)
(* check-in hour and the new push hour.                                    *)
C37_BothHoursTakeEffect ==
    \A c, d \in Setters :
        (/\ setters[c].pc = "done" /\ setters[c].success
         /\ setters[d].pc = "done" /\ setters[d].success
         /\ setters[c].checkin_hour # NULL /\ setters[c].push_hour = NULL
         /\ setters[d].checkin_hour = NULL /\ setters[d].push_hour # NULL)
        => \A account \in get_by_id(1) :
              /\ account.checkin_hour = setters[c].checkin_hour
              /\ account.push_hour = setters[d].push_hour

(* C38: a repository operation that has returned has released every pool  *)
(* connection it acquired, an operation that called another one while      *)
(* holding a connection included: when no operation is under way no        *)
(* connection is in use.                                                   *)
C38_ReturnedOperationsHoldNothing ==
    (\A t \in Tasks : pool.tasks[t].pc = "idle") => pool.out = {}

(* C39: a refresh whose row a forced refresh has deleted while it was in   *)
(* flight writes nothing more to the account: whenever a refresh stores    *)
(* its cookie, its row is still in account_updates.                        *)
C39_OverriddenRefreshWritesNothing ==
    [][\A a \in Accounts :
          cookie_from'[a] # cookie_from[a]
          => \E u \in updates : u.id = cookie_from'[a] /\ u.account_id = a]_vars

====
